---------------------------- MODULE Spec2Model ----------------------------
(***************************************************************************)
(* Embed Reconciler of demandvox: the scripts that find the Delphi iframe, *)
(* detect its mode, resize it, lock scrolling during a send, and enforce   *)
(* DOM rules inside it.                                                    *)
(*                                                                         *)
(* One group of variables per subsystem.  Every specification below runs   *)
(* one subsystem and leaves the other groups at their initial values.      *)
(*   SpecWait    waitForIframe                    (delphi.js 1027-1062)    *)
(*   SpecMode    getDelphiMode                    (delphi.js 603-646)      *)
(*   SpecScroll  auto-scroll-once controller      (part_002 405-627)       *)
(*   SpecLock    installIframeAutoScrollBlocker   (delphi.js 1397-1776)    *)
(*   Spec        waitForIframe + enableIframeAutoResize of the final       *)
(*               revision                         (delphi.js 1027-1367)    *)
(*   SpecRules   DOM rule builders                (delphi.js 734-870)      *)
(*   SpecMeasure resizeIframe over the measured heights                    *)
(*                                                (delphi.js 1157-1203)    *)
(*   SpecStab    stabilization loops alone, SpecStabFair with fair frames  *)
(*                                                (delphi.js 1212-1272)    *)
(*   SpecEngine  rule engine and mode check over animation frames          *)
(*                                     (delphi.js 660-719, 1302-1366)      *)
(*   SpecPass    passes of the rule engine with rules that throw           *)
(*                                                (delphi.js 673-682)      *)
(*   SpecSetup   injectOverridesIntoIframe on discovery and on every load  *)
(*               event                            (delphi.js 1780-1921)    *)
(*   SpecApi     the lock with the patched scroll APIs and the outer       *)
(*               scroll tracker        (delphi.js 984-1021, 1713-1745)     *)
(*   SpecEntry   the lock's handlers, the event of each step on record     *)
(*                                                (delphi.js 1596-1693)    *)
(*   SpecFound   discovery with the provisional height                     *)
(*                                                (delphi.js 1035-1061)    *)
(*   SpecAbort   SpecStab, the callback of each step on record             *)
(*   SpecCalls   calls of getDelphiMode between changes of the document    *)
(*   SpecReach   injection and load listeners, the embedded document in    *)
(*               every state of reach  (delphi.js 1780-1901, 1923-1943)    *)
(*   SpecEarly   enableIframeAutoResize of delphi-styling.js   (267-337)   *)
(*   SpecHandle  the mode detectors and handleModeChange                   *)
(*                                                (delphi.js 1280-1366)    *)
(*   SpecRes     the lock's frame, timeout and observer                    *)
(*                                                (delphi.js 1510-1649)    *)
(*   SpecInstall discovery of a document that may lack its body            *)
(*                                       (delphi.js 660-719, 891-950)      *)
(*   SpecWaitFair SpecWait with the interval callback kept running         *)
(*   SpecRound   install and uninstall calls of the blocker                *)
(*                                     (delphi.js 1397-1416, 1749-1776)    *)
(*   SpecQuiet   rule engine on the document of the rules, SpecQuietFair   *)
(*               with fair frames       (delphi.js 660-719, 734-870)       *)
(***************************************************************************)
EXTENDS Integers, Sequences, FiniteSets, TLC

VARIABLES
    \* ---- waitForIframe (delphi.js 1027-1062)
    wElapsed,        \* Date.now() - start at the latest poll, in ms
    wTimer,          \* "running" | "cleared": the setInterval handle
    wIframeInDom,    \* document.querySelector(selector) is non-null
    wFound,          \* number of onFound(iframe) invocations
    wFoundAt,        \* wElapsed at the poll that invoked onFound, -1 before
    wErrors,         \* number of dvError("Timeout: iframe not found") calls
    wSawHeight,      \* iframe.style.height in px when onFound was called, -1 before
    \* ---- embedded document markers and getDelphiMode (delphi.js 603-646)
    markers,         \* marker name -> element state (see ElemStates)
    modeResult,      \* the value the latest getDelphiMode(doc) call returned
    \* ---- host page and iframe geometry
    innerHeight,     \* window.innerHeight
    iframeHeight,    \* iframe.style.height in px
    scrollY,         \* window.scrollY / pageYOffset of the host page
    scrollH,         \* element -> scrollHeight inside the embedded document
    \* ---- enableIframeAutoResize of part_002 (405-627)
    installedP2,     \* iframe.__dvAutoResizeInstalled
    lastModeP2,      \* let lastMode
    userHasScrolled,
    firstAutoScrollDone,
    entryTimeout,    \* the setTimeout(..., 150) of a chat entry is pending
    scrollEvents,    \* who caused the pending host "scroll" event
    \* history of the current chat entry (not program state)
    entryFrom,       \* lastMode before the latest detected chat entry
    entryDone,       \* the entry's 150ms correction has run
    entryScrolls,    \* window.scrollTo calls by the reconciler in this entry
    entryUserScroll, \* the user scrolled the page during this entry
    scrollAfterFlag, \* a scrollTo call was made with userHasScrolled set
    \* ---- installIframeAutoScrollBlocker (delphi.js 1397-1776)
    blockerInstalled,       \* listeners and patches are in place
    lockActive,
    lockedOuterTop,
    lockedScroller,         \* "null" or the element the lock follows
    lockedScrollerDetached, \* that node has left the document
    lockedScrollerTop,
    guardRaf,               \* 0, or 1 while a guard frame is requested
    idleTimer,              \* 0, or 1 while the idle timeout is set
    idleLeft,               \* ms until the idle timeout is due
    streamObserver,         \* "null" or the root the observer watches
    guardFrames,            \* guard frames requested, neither run nor cancelled
    idleTimeouts,           \* idle timeouts set, neither fired nor cleared
    observers,              \* stream observers connected
    intentAgo,              \* Date.now() - lastUserIntentTs, capped
    scrollTop,              \* internal scroller -> scrollTop
    \* history of the lock (not program state)
    sinceBump,       \* ms since the latest send signal or observed mutation
    intentSinceLock, \* a user scroll-input signal arrived during this lock
    guardDid,        \* what enforceLockOnce did, in the state right after it
    \* ---- DOM rules (delphi.js 734-870)
    rDom,            \* the embedded document: its elements in document order
    rDetached,       \* a node ruleRemoveElement removed is kept by the widget
    \* history of the rule applications (not program state)
    rLast,           \* the rule applied last
    rPasses,         \* its applications in succession, nothing in between
    rMatches,        \* elements matching its selector before the first of them
    rPrev,           \* the document before the latest application
    rWrites,         \* DOM writes the latest application made
    \* ---- enableIframeAutoResize of the final revision (delphi.js 1077-1367)
    autoResizeInstalled, \* iframe.__dvAutoResizeInstalled
    lastMode,            \* let lastMode
    checkScheduled,      \* scheduleCheck's scheduled flag: its frame is pending
    paintFrames,         \* pending frames of afterNextPaint(resizeIframe)
    iframeBusy,          \* setIframeBusy: opacity 0, pointer-events none
    stabLoops,           \* the stabilization loops with a frame pending
    \* ---- injectOverridesIntoIframe and the install-once guards
    docGen,              \* which document the iframe shows: 0 at discovery
    winGen,              \* which Window object iframe.contentWindow stands for
    loadPending,         \* the iframe's load event has not fired yet
    loadListeners,       \* "load" listeners added to the iframe
    dvDomRulesInstalled, \* iframe.__dvDomRulesInstalled
    resizeDoc,           \* the doc enableIframeAutoResize holds, -1 for none
    resizeIntervals,     \* setInterval timers enableIframeAutoResize started
    docs,                \* document -> what was installed on it
    wins,                \* window -> what was installed on it
    \* ---- history of the recomputations of the height
    ranResize,           \* the step taken last ran resizeIframe()
    steady,              \* resizeIframe() has run, and since its latest run no
                         \* measured height went down and the viewport stayed
    \* ---- the rule engine of one document, over animation frames
    eRuntime,            \* doc.__dvWatcherRuntime exists, its observer observes
    eRules,              \* runtime.rules, as rule names
    eScheduled,          \* the flag scheduled of scheduleRun
    eQueued,             \* rule-pass callbacks requested for the next frame
    eEnforced,           \* rules whose target is in the state the rule enforces
    eChanged,            \* kinds of widget changes made since the latest pass
    eOwed,               \* those of them made before the current frame began
    lastPass,            \* the latest runAll(): rules applied, rules that threw
    eTicked,             \* the interval ran after the latest widget change
    inFrame,             \* the callbacks of an animation frame are running
    frameRules,          \* rule-pass callbacks of this frame still to run
    frameCheck,          \* the scheduleCheck callback of this frame is still to run
    frameLoops,          \* stabilization callbacks of this frame still to run
    framePasses,         \* rule passes run by callbacks of this frame
    frameHandles,        \* handleModeChange calls by callbacks of this frame
    \* ---- the patched scroll APIs (delphi.js 1713-1745) and the outer
    \* ---- scroll tracker (delphi.js 984-1021)
    innerScroll,         \* scroll offset of the embedded window
    outerAtBottom,       \* window.__dvOuterAtBottom
    trackerPending,      \* a host "scroll" event is still to be dispatched
    apiLast,             \* the call of a scroll API made by the step taken last
    lastEvent,           \* the event dispatched by the step taken last (history)
    \* ---- the load listener of the second DOMContentLoaded handler
    \* ---- (delphi.js 1923-1943)
    styleListener,       \* it is registered on the iframe
    uncaught,            \* exceptions that left a callback of the host page (history)
    \* ---- enableIframeAutoResize of delphi-styling.js (267-337)
    firstResizeDone,     \* let firstResizeDone
    earlyTimeouts,       \* setTimeout(resizeIframe, ...) calls still pending
    heightBound,         \* the host page has a global named height
    \* history of that revision (not program state)
    earlyWrites,         \* runs of resizeIframe() that wrote iframe.style.height
    earlyCaught,         \* exceptions its catch block logged
    earlyScrolls,        \* window.scrollTo calls it made
    earlyFirstTarget,   \* the target offset at the first such write, "none" before
    \* ---- history of the mode detection of the final revision
    handled,             \* arguments of the handleModeChange calls of the step taken last
    detected,            \* the mode the latest run of a detector computed, "none" before
    \* ---- installIframeAutoScrollBlocker on one iframe window (delphi.js 1397-1777)
    blockerFlag,         \* win.__dvAutoScrollBlockerInstalled
    docListeners,        \* listeners on the document, as <<closure, listener>>
    winApis,             \* per scroll API, the wrappers around the original function
    blockerClosures,     \* per call that installed, the API values it captured as orig*
    winUninstall,        \* win.__dvAutoScrollBlockerUninstall: a closure, 0 if unset
    \* history of the calls (not program state)
    installReturned,     \* what the latest call returned: a closure, -1 for () => {}
    installCalls,        \* calls of installIframeAutoScrollBlocker made
    installLast,         \* the call made last: "install", "uninstall"
    \* ---- history of the rule engine at work on the document of the rules
    widgetSteps,         \* changes the widget made to the document
    quietPasses          \* passes of runAll in animation frames since the latest of them (capped)

waitVars == <<wElapsed, wTimer, wIframeInDom, wFound, wFoundAt, wErrors, wSawHeight>>
modeVars == <<markers, modeResult>>
geomVars == <<innerHeight, iframeHeight, scrollY, scrollH>>
p2Vars == <<installedP2, lastModeP2, userHasScrolled, firstAutoScrollDone,
            entryTimeout, scrollEvents, entryFrom, entryDone, entryScrolls,
            entryUserScroll, scrollAfterFlag>>
lockVars == <<blockerInstalled, lockActive, lockedOuterTop, lockedScroller,
              lockedScrollerDetached, lockedScrollerTop, guardRaf, idleTimer,
              idleLeft, streamObserver, guardFrames, idleTimeouts, observers,
              intentAgo, scrollTop, sinceBump,
              intentSinceLock, guardDid>>
ruleVars == <<rDom, rDetached, rLast, rPasses, rMatches, rPrev, rWrites>>
resizeVars == <<autoResizeInstalled, lastMode, checkScheduled, paintFrames,
                iframeBusy, stabLoops>>
setupVars == <<docGen, winGen, loadPending, loadListeners, dvDomRulesInstalled,
               resizeDoc, resizeIntervals, docs, wins>>
measureVars == <<ranResize, steady>>
engineVars == <<eRuntime, eRules, eScheduled, eQueued, eEnforced, eChanged, eOwed,
                lastPass, eTicked>>
frameVars == <<inFrame, frameRules, frameCheck, frameLoops, framePasses, frameHandles>>
apiVars == <<innerScroll, outerAtBottom, trackerPending, apiLast, lastEvent,
             styleListener, uncaught>>
detectVars == <<handled, detected>>
quietVars == <<widgetSteps, quietPasses>>
installVars == <<blockerFlag, docListeners, winApis, blockerClosures, winUninstall,
                 installReturned, installCalls, installLast>>
earlyVars == <<firstResizeDone, earlyTimeouts, heightBound, earlyWrites, earlyCaught,
               earlyScrolls, earlyFirstTarget>>
vars == <<waitVars, modeVars, geomVars, p2Vars, lockVars, ruleVars, resizeVars,
          setupVars, measureVars, engineVars, frameVars, apiVars, earlyVars,
          detectVars, installVars, quietVars>>

Max(a, b) == IF a >= b THEN a ELSE b
Min(a, b) == IF a <= b THEN a ELSE b

(***************************************************************************)
(* waitForIframe                                                           *)
(***************************************************************************)
\* MIN_IFRAME_VIEWPORT_RATIO = 0.87, as a percentage
MIN_IFRAME_VIEWPORT_RATIO_PCT == 87
\* Math.floor(window.innerHeight * MIN_IFRAME_VIEWPORT_RATIO)
MinHeight(v) == (v * MIN_IFRAME_VIEWPORT_RATIO_PCT) \div 100

MAX_TIME == 15000
INTERVAL == 200
\* a setInterval callback may run late; each poll is late by 0 or PollJitter ms
PollJitter == 100

\* the deadline test of one poll: Date.now() - start > MAX_TIME
TimeoutExpiredOffByOne(elapsed) == elapsed >= MAX_TIME
TimeoutExpired(elapsed) == elapsed > MAX_TIME

\* the height the found branch gives an iframe of height h before it calls
\* onFound: iframe.style.height = initialMinHeight + "px"
InitialHeightNotApplied(h) == h
InitialHeight(h) == MinHeight(innerHeight)

WaitInit ==
    /\ wElapsed = 0
    /\ wTimer = "running"
    /\ wIframeInDom = FALSE
    /\ wFound = 0
    /\ wFoundAt = -1
    /\ wErrors = 0
    /\ wSawHeight = -1

\* a callback whose found branch falls through to the deadline test
WaitPollNoReturn(late) ==
    /\ wTimer = "running"
    /\ wElapsed' = wElapsed + INTERVAL + late
    /\ wFound' = IF wIframeInDom THEN wFound + 1 ELSE wFound
    /\ wFoundAt' = IF wIframeInDom THEN wElapsed' ELSE wFoundAt
    /\ wSawHeight' = IF wIframeInDom THEN InitialHeight(iframeHeight) ELSE wSawHeight
    /\ wErrors' = IF TimeoutExpired(wElapsed') THEN wErrors + 1 ELSE wErrors
    /\ wTimer' = IF wIframeInDom \/ TimeoutExpired(wElapsed')
                   THEN "cleared" ELSE wTimer
    /\ UNCHANGED wIframeInDom

\* one run of the setInterval callback, late ms after its nominal time
WaitPoll(late) ==
    /\ wTimer = "running"
    /\ wElapsed' = wElapsed + INTERVAL + late
    /\ IF wIframeInDom
         THEN /\ wTimer' = "cleared"
              /\ wFound' = wFound + 1
              /\ wFoundAt' = wElapsed'
              /\ wSawHeight' = InitialHeight(iframeHeight)
              /\ UNCHANGED wErrors
         ELSE IF TimeoutExpired(wElapsed')
                THEN /\ wErrors' = wErrors + 1
                     /\ wTimer' = "cleared"
                     /\ UNCHANGED <<wFound, wFoundAt, wSawHeight>>
                ELSE UNCHANGED <<wTimer, wFound, wFoundAt, wErrors, wSawHeight>>
    /\ UNCHANGED wIframeInDom

\* the third-party script injects #delphi-frame into the host page
\* the same, the script giving its iframe a height of its own
EmbedInjected(h) ==
    /\ ~wIframeInDom
    /\ wIframeInDom' = TRUE
    /\ iframeHeight' = h
    /\ UNCHANGED <<wElapsed, wTimer, wFound, wFoundAt, wErrors, wSawHeight>>

IframeInjected ==
    /\ ~wIframeInDom
    /\ wIframeInDom' = TRUE
    /\ UNCHANGED <<wElapsed, wTimer, wFound, wFoundAt, wErrors, wSawHeight>>

(***************************************************************************)
(* Mode detector                                                           *)
(***************************************************************************)
MarkerNames == {"call", "convo", "talk", "profile"}

\* What querySelector and the style/layout queries report for one selector.
\* rects = 0 with display "block" is an element inside a display:none
\* ancestor (a view the SPA keeps mounted while hidden); display "none"
\* always has no client rects.
ElemStates ==
    { e \in [present : BOOLEAN, display : {"none", "block"},
             visibility : {"hidden", "visible"}, rects : 0..1] :
        /\ (~e.present => e.display = "block" /\ e.visibility = "visible" /\ e.rects = 0)
        /\ (e.display = "none" => e.rects = 0) }

Absent == [present |-> FALSE, display |-> "block", visibility |-> "visible", rects |-> 0]
Shown  == [present |-> TRUE, display |-> "block", visibility |-> "visible", rects |-> 1]
Unrendered == [present |-> TRUE, display |-> "block", visibility |-> "visible", rects |-> 0]

\* isElementVisible(el, view).  view is always a Window here, so cs is never
\* null, and neither getComputedStyle nor getClientRects throws for an
\* element querySelector returned: the catch branch is not reachable.
IsElementVisible(el) ==
    IF ~el.present THEN FALSE
    ELSE IF el.display = "none" THEN FALSE
    ELSE IF el.visibility = "hidden" THEN FALSE
    ELSE el.rects > 0

\* queryVisible(doc, selector) != null
QueryVisible(doc, sel) == IsElementVisible(doc[sel])

GetDelphiModeChatFirst(doc) ==
    IF QueryVisible(doc, "convo") \/ QueryVisible(doc, "talk") THEN "chat_mode"
    ELSE IF QueryVisible(doc, "profile") THEN "overview_mode"
    ELSE IF QueryVisible(doc, "call") THEN "call_mode"
    ELSE "unknown_mode"
GetDelphiMode(doc) ==
    IF QueryVisible(doc, "call") THEN "call_mode"
    ELSE IF QueryVisible(doc, "convo") \/ QueryVisible(doc, "talk") THEN "chat_mode"
    ELSE IF QueryVisible(doc, "profile") THEN "overview_mode"
    ELSE "unknown_mode"

ModeInit ==
    /\ markers = [m \in MarkerNames |-> Absent]
    /\ modeResult = "not_called"

\* the widget mounts, unmounts, hides or shows one marker element
MarkerChange(m, e) ==
    /\ markers[m] # e
    /\ markers' = [markers EXCEPT ![m] = e]
    /\ modeResult' = "not_called"

\* a caller evaluates getDelphiMode(doc)
DetectMode ==
    /\ modeResult = "not_called"
    /\ modeResult' = GetDelphiMode(markers)
    /\ UNCHANGED markers

(***************************************************************************)
(* Host page and iframe geometry                                           *)
(***************************************************************************)

HeightElems == MarkerNames \cup {"body", "docEl"}

\* viewport height of the host window, and the measured content heights
ViewportSmall == 100
ContentSmall == 60
ContentLarge == 300
Heights == {ContentSmall, ContentLarge}
\* distance from the top of the host page to the top of the iframe
IframeTop == 10
\* the user scrolls the host page to a position in 0..MaxUserScroll
MaxUserScroll == 1

GeomInit ==
    /\ innerHeight = ViewportSmall
    /\ iframeHeight = MinHeight(ViewportSmall)
    /\ scrollY = 0
    /\ scrollH = [e \in HeightElems |-> IF e \in {"body", "docEl"} THEN ContentSmall ELSE 0]

\* the widget mounts a view (its marker element appears, rendered)
Mount(m, h) ==
    /\ ~markers[m].present
    /\ markers' = [markers EXCEPT ![m] = Shown]
    /\ scrollH' = [scrollH EXCEPT ![m] = h]
    /\ modeResult' = "not_called"

\* the widget removes a view from the DOM
Unmount(m) ==
    /\ markers[m].present
    /\ markers' = [markers EXCEPT ![m] = Absent]
    /\ scrollH' = [scrollH EXCEPT ![m] = 0]
    /\ modeResult' = "not_called"

\* content of a mounted view (or of the body) grows or shrinks
ContentResize(e, h) ==
    /\ e \in MarkerNames => markers[e].present /\ markers[e].display # "none"
    /\ scrollH[e] # h
    /\ scrollH' = [scrollH EXCEPT ![e] = h]
    /\ UNCHANGED <<markers, modeResult>>

(***************************************************************************)
(* part_002: enableIframeAutoResize with the auto-scroll-once controller   *)
(***************************************************************************)
\* getDelphiMode of part_002: presence only, chat > overview > call
GetDelphiModeP2(doc) ==
    IF doc["convo"].present THEN "chat_mode"
    ELSE IF doc["profile"].present THEN "overview_mode"
    ELSE IF doc["call"].present THEN "call_mode"
    ELSE "unknown_mode"

\* getActiveHeightRoot(mode) of part_002, as the name of the element
GetActiveHeightRootP2(doc, mode) ==
    IF mode = "chat_mode"
      THEN IF doc["convo"].present THEN "convo"
           ELSE IF doc["talk"].present THEN "talk" ELSE "body"
    ELSE IF mode = "overview_mode"
      THEN IF doc["profile"].present THEN "profile" ELSE "body"
    ELSE IF mode = "call_mode"
      THEN IF doc["call"].present THEN "call" ELSE "body"
    ELSE "body"

\* The part of the state one handler of part_002 reads and writes, threaded
\* through the calls the handler makes.
P2State ==
    [h |-> iframeHeight, y |-> scrollY, uhs |-> userHasScrolled,
     fasd |-> firstAutoScrollDone, calls |-> entryScrolls,
     after |-> scrollAfterFlag, ev |-> scrollEvents]

P2Commit(s) ==
    /\ iframeHeight' = s.h
    /\ scrollY' = s.y
    /\ userHasScrolled' = s.uhs
    /\ firstAutoScrollDone' = s.fasd
    /\ entryScrolls' = s.calls
    /\ scrollAfterFlag' = s.after
    /\ scrollEvents' = s.ev

\* scrollOuterPageToIframeBottom(): window.scrollY + rect.bottom is the page
\* offset of the iframe's bottom edge, IframeTop + height.  The iframe ends
\* the page, so the target is also the largest scroll offset.
ScrollOuterPageToIframeBottom(s) ==
    LET targetScrollTop == (IframeTop + s.h) - innerHeight
    IN  IF targetScrollTop > 0
          THEN [s EXCEPT !.y = targetScrollTop,
                         !.calls = @ + 1,
                         !.after = @ \/ s.uhs,
                         !.ev = IF targetScrollTop # s.y
                                  THEN @ \cup {"reconciler"} ELSE @]
          ELSE s

\* resizeIframe() of part_002
ResizeIframeP2(s) ==
    LET mode == GetDelphiModeP2(markers)
        minHeight == MinHeight(innerHeight)
        root == GetActiveHeightRootP2(markers, mode)
        contentHeight == scrollH[root]
        finalHeight == Max(contentHeight, minHeight)
        s1 == [s EXCEPT !.h = finalHeight]
    IN  IF mode = "chat_mode" /\ ~s1.uhs /\ ~s1.fasd
          THEN [ScrollOuterPageToIframeBottom(s1) EXCEPT !.fasd = TRUE]
          ELSE s1

P2Init ==
    /\ installedP2 = FALSE
    /\ lastModeP2 = "unset"
    /\ userHasScrolled = FALSE
    /\ firstAutoScrollDone = FALSE
    /\ entryTimeout = FALSE
    /\ scrollEvents = {}
    /\ entryFrom = "none"
    /\ entryDone = FALSE
    /\ entryScrolls = 0
    /\ entryUserScroll = FALSE
    /\ scrollAfterFlag = FALSE

\* enableIframeAutoResize(iframe), first call: guard, lastMode, listener,
\* initial resizeIframe(), setInterval
EnableAutoResizeP2 ==
    /\ ~installedP2
    /\ installedP2' = TRUE
    /\ lastModeP2' = GetDelphiModeP2(markers)
    /\ P2Commit(ResizeIframeP2(P2State))
    /\ entryFrom' = IF GetDelphiModeP2(markers) = "chat_mode" THEN "initial" ELSE "none"
    /\ entryDone' = (GetDelphiModeP2(markers) = "chat_mode")
    /\ UNCHANGED <<entryTimeout, entryUserScroll, innerHeight, scrollH>>

\* the setInterval callback (RESIZE_INTERVAL_MS).  The 150ms timeout of an
\* entry is due before the next 1500ms tick, so no tick runs while it is
\* pending.
IntervalTickP2 ==
    /\ installedP2
    /\ ~entryTimeout
    /\ LET mode == GetDelphiModeP2(markers)
           s1 == ResizeIframeP2(P2State)
       IN  IF mode # lastModeP2
             THEN /\ lastModeP2' = mode
                  /\ IF mode = "chat_mode"
                       THEN /\ P2Commit([s1 EXCEPT !.uhs = FALSE, !.fasd = FALSE,
                                                   !.calls = 0, !.after = FALSE])
                            /\ entryTimeout' = TRUE
                            /\ entryFrom' = lastModeP2
                            /\ entryDone' = FALSE
                            /\ entryUserScroll' = FALSE
                       ELSE /\ P2Commit(s1)
                            /\ UNCHANGED <<entryTimeout, entryFrom, entryDone,
                                           entryUserScroll>>
             ELSE /\ P2Commit(s1)
                  /\ UNCHANGED <<lastModeP2, entryTimeout, entryFrom, entryDone,
                                 entryUserScroll>>
    /\ UNCHANGED <<installedP2, innerHeight, scrollH>>

\* the setTimeout(..., 150) callback of a chat entry
EntryTimeoutP2 ==
    /\ entryTimeout
    /\ entryTimeout' = FALSE
    /\ P2Commit([ScrollOuterPageToIframeBottom(ResizeIframeP2(P2State))
                   EXCEPT !.fasd = TRUE])
    /\ entryDone' = TRUE
    /\ UNCHANGED <<installedP2, lastModeP2, entryFrom, entryUserScroll,
                   innerHeight, scrollH>>

\* the passive "scroll" listener on the host window; one event is delivered
\* for the scrolls that happened since the last one
ScrollEventP2 ==
    /\ scrollEvents # {}
    /\ scrollEvents' = {}
    /\ userHasScrolled' =
         IF installedP2 /\ GetDelphiModeP2(markers) = "chat_mode"
           THEN TRUE ELSE userHasScrolled
    /\ UNCHANGED <<installedP2, lastModeP2, firstAutoScrollDone, entryTimeout,
                   entryFrom, entryDone, entryScrolls, entryUserScroll,
                   scrollAfterFlag, geomVars>>

\* the user scrolls the host page (wheel, touch, keyboard, scrollbar)
UserScroll(y) ==
    /\ y # scrollY
    /\ scrollY' = y
    /\ scrollEvents' = scrollEvents \cup {"user"}
    /\ entryUserScroll' = TRUE
    /\ UNCHANGED <<installedP2, lastModeP2, userHasScrolled, firstAutoScrollDone,
                   entryTimeout, entryFrom, entryDone, entryScrolls,
                   scrollAfterFlag, innerHeight, iframeHeight, scrollH>>

(***************************************************************************)
(* installIframeAutoScrollBlocker: the scroll lock                         *)
(***************************************************************************)
STREAM_IDLE_MS == 650
USER_INTENT_GRACE_MS == 450
\* scroll offsets of the host page and of the internal scroller: 0..MaxTop
MaxTop == 2
\* the candidates of findChatScroller
Scrollers == {"convo", "talk"}
\* time passes between two callbacks in one of these amounts (ms)
TimeSteps == {STREAM_IDLE_MS - USER_INTENT_GRACE_MS, USER_INTENT_GRACE_MS}

\* inChatMode()
InChatMode == GetDelphiMode(markers) = "chat_mode"

\* recentlyUserIntent()
RecentlyUserIntent == intentAgo < USER_INTENT_GRACE_MS

\* findChatScroller(): the candidate with the largest scrollHeight, the
\* first one on a tie, none when every candidate has scrollHeight 0
FindChatScroller ==
    LET hc == IF markers["convo"].present THEN scrollH["convo"] ELSE 0
        ht == IF markers["talk"].present THEN scrollH["talk"] ELSE 0
    IN  IF ht > hc THEN "talk" ELSE IF hc > 0 THEN "convo" ELSE "null"

\* The part of the state startLock and enforceLockOnce read and write,
\* threaded through the calls.
LockState ==
    [y |-> scrollY, top |-> scrollTop, lot |-> lockedOuterTop,
     ls |-> lockedScroller, lsd |-> lockedScrollerDetached,
     lst |-> lockedScrollerTop, did |-> {}]

LockCommit(L) ==
    /\ scrollY' = L.y
    /\ scrollTop' = L.top
    /\ lockedOuterTop' = L.lot
    /\ lockedScroller' = L.ls
    /\ lockedScrollerDetached' = L.lsd
    /\ lockedScrollerTop' = L.lst
    /\ guardDid' = L.did

\* ensureLockedScroller()
EnsureLockedScroller(L) ==
    IF L.ls # "null" /\ ~L.lsd THEN L
    ELSE LET f == FindChatScroller
         IN  IF f # "null"
               THEN [L EXCEPT !.ls = f, !.lsd = FALSE, !.lst = L.top[f]]
               ELSE [L EXCEPT !.ls = "null", !.lsd = FALSE]

\* enforceLockOnce(), past its lockActive test; userActive is what
\* recentlyUserIntent() returns
EnforceLock(L, userActive) ==
    LET chat == InChatMode
        tag(k) == IF chat THEN {k} ELSE {k, "not-chat"}
        L1 == IF userActive
                THEN [L EXCEPT !.lot = L.y,
                               !.did = IF L.y > L.lot THEN @ \cup {"adopt-outer"} ELSE @]
                ELSE IF L.y > L.lot + 1
                       THEN [L EXCEPT !.y = L.lot, !.did = @ \cup tag("revert-outer")]
                       ELSE IF L.y < L.lot - 1
                              THEN [L EXCEPT !.lot = L.y,
                                             !.did = @ \cup {"follow-outer"}]
                              ELSE L
        L2 == EnsureLockedScroller(L1)
        cur == L2.top[L2.ls]
    IN  IF L2.ls = "null" THEN L2
        ELSE IF userActive
               THEN [L2 EXCEPT !.lst = cur,
                               !.did = IF cur > L2.lst THEN @ \cup {"adopt-scroller"} ELSE @]
               ELSE IF cur > L2.lst + 1
                      THEN [L2 EXCEPT !.top[L2.ls] = L2.lst,
                                      !.did = @ \cup tag("revert-scroller")]
                      ELSE IF cur < L2.lst - 1
                             THEN [L2 EXCEPT !.lst = cur,
                                             !.did = @ \cup {"follow-scroller"}]
                             ELSE L2

EnforceLockOnceNoRevert(L) == L
EnforceLockOnceNoGrace(L) == EnforceLock(L, FALSE)
\* a guard that also puts back a position that moved up
EnforceLockOnceSticky(L) ==
    LET E == EnforceLock(L, RecentlyUserIntent)
    IN  IF ~RecentlyUserIntent /\ L.y < L.lot - 1
          THEN [E EXCEPT !.y = L.lot, !.lot = L.lot] ELSE E
EnforceLockOnce(L) == EnforceLock(L, RecentlyUserIntent)

\* the root armStreamObserver() picks
StreamRoot ==
    IF markers["convo"].present THEN "convo"
    ELSE IF markers["talk"].present THEN "talk" ELSE "body"

LockInit ==
    /\ blockerInstalled = TRUE
    /\ lockActive = FALSE
    /\ lockedOuterTop = 0
    /\ lockedScroller = "null"
    /\ lockedScrollerDetached = FALSE
    /\ lockedScrollerTop = 0
    /\ guardRaf = 0
    /\ idleTimer = 0
    /\ idleLeft = 0
    /\ streamObserver = "null"
    /\ guardFrames = 0
    /\ idleTimeouts = 0
    /\ observers = 0
    /\ intentAgo = USER_INTENT_GRACE_MS
    /\ scrollTop = [e \in Scrollers |-> 0]
    /\ sinceBump = STREAM_IDLE_MS
    /\ intentSinceLock = FALSE
    /\ guardDid = {}

lockBase == <<lockedOuterTop, lockedScroller, lockedScrollerDetached,
              lockedScrollerTop>>
lockTimers == <<lockActive, guardRaf, idleTimer, idleLeft, streamObserver,
                guardFrames, idleTimeouts, observers>>

\* bumpIdleTimer(), called with lockActive set: clear and set the timeout
BumpIdleTimerKeepsDeadline ==
    /\ idleTimer' = 1
    /\ idleLeft' = IF idleTimer = 1 THEN idleLeft ELSE STREAM_IDLE_MS
    /\ idleTimeouts' = idleTimeouts - (IF idleTimer = 1 THEN 1 ELSE 0) + 1
BumpIdleTimer ==
    /\ idleTimer' = 1
    /\ idleLeft' = STREAM_IDLE_MS
    /\ idleTimeouts' = idleTimeouts - (IF idleTimer = 1 THEN 1 ELSE 0) + 1

\* startGuardLoop(): if (guardRaf) return, else request a frame
StartGuardLoopNoGuard ==
    /\ guardRaf' = 1
    /\ guardFrames' = guardFrames + 1
StartGuardLoop ==
    /\ guardRaf' = 1
    /\ guardFrames' = IF guardRaf # 0 THEN guardFrames ELSE guardFrames + 1

\* armStreamObserver(): if (streamObserver) return, else observe the root
ArmStreamObserver ==
    /\ streamObserver' = IF streamObserver # "null" THEN streamObserver ELSE StreamRoot
    /\ observers' = IF streamObserver # "null" THEN observers ELSE observers + 1

\* a handler that does not reach startLock
NoLock ==
    /\ guardDid' = {}
    /\ UNCHANGED <<scrollY, scrollTop, lockBase, lockTimers, sinceBump>>

\* startLock(reason), with the enforceLockOnce microtask it queues
StartLock ==
    IF ~InChatMode
      THEN NoLock /\ UNCHANGED intentSinceLock
      ELSE LET L1 == EnsureLockedScroller([LockState EXCEPT !.lot = scrollY])
               L2 == [L1 EXCEPT !.lst = IF L1.ls # "null" THEN L1.top[L1.ls] ELSE 0]
           IN  /\ LockCommit(EnforceLockOnce(L2))
               /\ lockActive' = TRUE
               /\ StartGuardLoop
               /\ ArmStreamObserver
               /\ BumpIdleTimer
               /\ sinceBump' = 0
               /\ intentSinceLock' = (lockActive /\ intentSinceLock)

\* stopLock(reason), past its lockActive test
StopLock ==
    /\ lockActive' = FALSE
    /\ guardRaf' = 0
    /\ guardFrames' = IF guardRaf # 0 THEN guardFrames - 1 ELSE guardFrames
    /\ idleTimer' = 0
    /\ idleTimeouts' = IF idleTimer # 0 THEN idleTimeouts - 1 ELSE idleTimeouts
    /\ idleLeft' = 0
    /\ streamObserver' = "null"
    /\ observers' = IF streamObserver # "null" THEN observers - 1 ELSE observers

\* keydown on the embedded document: onKeyDownCapture, then onKeyIntentCapture
ScrollKeys == {"PageDown", "PageUp", "Home", "End", "ArrowDown", "ArrowUp", " "}
KeyDownAnyEnter(key, shiftKey, isComposing) ==
    /\ blockerInstalled
    /\ IF InChatMode /\ key = "Enter"
         THEN StartLock
         ELSE NoLock /\ intentSinceLock' = (intentSinceLock \/ (lockActive /\ key \in ScrollKeys))
    /\ intentAgo' = IF key \in ScrollKeys THEN 0 ELSE intentAgo
    /\ UNCHANGED blockerInstalled
KeyDown(key, shiftKey, isComposing) ==
    /\ blockerInstalled
    /\ IF InChatMode /\ key = "Enter" /\ ~shiftKey /\ ~isComposing
         THEN StartLock
         ELSE NoLock /\ intentSinceLock' = (intentSinceLock \/ (lockActive /\ key \in ScrollKeys))
    /\ intentAgo' = IF key \in ScrollKeys THEN 0 ELSE intentAgo
    /\ UNCHANGED blockerInstalled

\* click on the embedded document: onClickCapture.  btn is what
\* e.target.closest("button") is: "none", or a button that is of type
\* submit, has "send" in its aria-label, or neither
Buttons == {"none", "submit", "send-aria", "other"}
Click(btn) ==
    /\ blockerInstalled
    /\ IF InChatMode /\ btn \in {"submit", "send-aria"}
         THEN StartLock
         ELSE NoLock /\ UNCHANGED intentSinceLock
    /\ UNCHANGED <<blockerInstalled, intentAgo>>

\* submit on the embedded document: onSubmitCapture
Submit ==
    /\ blockerInstalled
    /\ IF InChatMode THEN StartLock ELSE NoLock /\ UNCHANGED intentSinceLock
    /\ UNCHANGED <<blockerInstalled, intentAgo>>

\* wheel or touchmove on the embedded document: markUserIntent
UserIntent ==
    /\ blockerInstalled
    /\ intentAgo' = 0
    /\ intentSinceLock' = (intentSinceLock \/ lockActive)
    /\ NoLock
    /\ UNCHANGED blockerInstalled

\* the stream observer's callback: a childList or characterData mutation
\* under the observed root
MutationObserved ==
    /\ streamObserver # "null"
    /\ streamObserver = "body" \/ markers[streamObserver].present
    /\ IF lockActive
         THEN BumpIdleTimer /\ sinceBump' = 0
         ELSE UNCHANGED <<idleTimer, idleLeft, idleTimeouts, sinceBump>>
    /\ guardDid' = {}
    /\ UNCHANGED <<blockerInstalled, lockActive, guardRaf, streamObserver, lockBase,
                   guardFrames, observers, intentAgo, scrollTop, intentSinceLock,
                   scrollY>>

\* the requestAnimationFrame callback of startGuardLoop
GuardFrame ==
    /\ guardRaf = 1
    /\ IF lockActive
         THEN /\ LockCommit(EnforceLockOnce(LockState))
              /\ guardRaf' = 1
              /\ guardFrames' = (guardFrames - 1) + 1
         ELSE /\ guardRaf' = 0
              /\ guardFrames' = guardFrames - 1
              /\ guardDid' = {}
              /\ UNCHANGED <<scrollY, scrollTop, lockBase>>
    /\ UNCHANGED <<blockerInstalled, lockActive, idleTimer, idleLeft, idleTimeouts,
                   streamObserver, observers, intentAgo, sinceBump, intentSinceLock>>

\* the idle timeout's callback: stopLock("stream-idle")
IdleTimerFire ==
    /\ idleTimer = 1
    /\ idleLeft = 0
    /\ IF lockActive
         THEN StopLock
         ELSE /\ idleTimer' = 0
              /\ idleTimeouts' = idleTimeouts - 1
              /\ UNCHANGED <<lockActive, guardRaf, idleLeft, streamObserver,
                             guardFrames, observers>>
    /\ guardDid' = {}
    /\ UNCHANGED <<blockerInstalled, lockBase, intentAgo, scrollTop, sinceBump,
                   intentSinceLock, scrollY>>

\* the uninstall function returned by installIframeAutoScrollBlocker
UninstallBlocker ==
    /\ blockerInstalled
    /\ blockerInstalled' = FALSE
    /\ IF lockActive THEN StopLock ELSE UNCHANGED lockTimers
    /\ guardDid' = {}
    /\ UNCHANGED <<lockBase, intentAgo, scrollTop, sinceBump, intentSinceLock,
                   scrollY>>

\* d ms pass.  A timeout that is due runs before more time passes.
Tick(d) ==
    /\ blockerInstalled
    /\ ~(idleTimer = 1 /\ idleLeft = 0)
    /\ idleLeft' = IF idleTimer = 1 THEN Max(0, idleLeft - d) ELSE idleLeft
    /\ intentAgo' = Min(USER_INTENT_GRACE_MS, intentAgo + d)
    /\ sinceBump' = Min(STREAM_IDLE_MS, sinceBump + d)
    /\ guardDid' = {}
    /\ UNCHANGED <<blockerInstalled, lockActive, guardRaf, idleTimer,
                   streamObserver, guardFrames, idleTimeouts, observers, lockBase,
                   scrollTop, intentSinceLock, scrollY>>

\* the host page scrolls to y (the user, or the widget's scrollIntoView)
ScrollOuter(y) ==
    /\ blockerInstalled
    /\ y # scrollY
    /\ scrollY' = y
    /\ guardDid' = {}
    /\ UNCHANGED <<blockerInstalled, lockTimers, lockBase, intentAgo, scrollTop,
                   sinceBump, intentSinceLock>>

\* an internal scroller scrolls to y (the user, or the widget's auto-scroll)
ScrollInner(el, y) ==
    /\ blockerInstalled
    /\ markers[el].present
    /\ y # scrollTop[el]
    /\ scrollTop' = [scrollTop EXCEPT ![el] = y]
    /\ guardDid' = {}
    /\ UNCHANGED <<blockerInstalled, lockTimers, lockBase, intentAgo, sinceBump,
                   intentSinceLock, scrollY>>

\* the widget mounts a view
LockMount(m, h) ==
    /\ blockerInstalled
    /\ Mount(m, h)
    /\ guardDid' = {}
    /\ UNCHANGED <<blockerInstalled, lockTimers, lockBase, intentAgo, scrollTop,
                   sinceBump, intentSinceLock, scrollY>>

\* the widget removes a view; its node, and a lock that follows it, detach
LockUnmount(m) ==
    /\ blockerInstalled
    /\ Unmount(m)
    /\ lockedScrollerDetached' = (lockedScrollerDetached \/ lockedScroller = m)
    /\ scrollTop' = [e \in Scrollers |-> IF e = m THEN 0 ELSE scrollTop[e]]
    /\ guardDid' = {}
    /\ UNCHANGED <<blockerInstalled, lockTimers, lockedOuterTop, lockedScroller,
                   lockedScrollerTop, intentAgo, sinceBump, intentSinceLock, scrollY>>

(***************************************************************************)
(* The outer scroll tracker (delphi.js 984-1021) and the scroll APIs       *)
(* installIframeAutoScrollBlocker patches (delphi.js 1713-1745)            *)
(***************************************************************************)
\* const tolerance = 2
TRACKER_TOLERANCE == 2
\* the host page can scroll by this many px: its scrollHeight is that much
\* more than the viewport height
OuterExtent == 3
OuterScrollHeight == innerHeight + OuterExtent

\* compute() of ensureOuterScrollTracker, at host scroll offset y
ComputeAtBottom(y) == y + innerHeight >= OuterScrollHeight - TRACKER_TOLERANCE

\* the three patched functions
ScrollApis == {"scrollTo", "scrollBy", "scrollIntoView"}
NoCall == [api |-> "none"]
\* an event on the embedded document, as <<type, key or button, shiftKey,
\* isComposing>>
NoEvent == <<"none", "", FALSE, FALSE>>

\* the test each patched function makes before it forwards
PatchBlocksLockOnly == lockActive
PatchBlocks == lockActive /\ InChatMode

\* the original function, applied with receiver and arguments as given:
\* the offset the embedded window is at after it.  window.scrollTo(0, y)
\* goes to y, window.scrollBy(0, d) moves by d, el.scrollIntoView() brings
\* the element's top (the conversation first, the Talk view below it) to
\* the top of the window.
OrigScroll(api, recv, arg) ==
    IF recv \notin {"window", "convo", "talk"} THEN innerScroll
    ELSE IF api = "scrollTo" THEN Max(0, Min(MaxTop, arg))
    ELSE IF api = "scrollBy" THEN Max(0, Min(MaxTop, innerScroll + arg))
    ELSE IF recv = "convo" THEN 0 ELSE MaxTop

\* a call of win.scrollTo, win.scrollBy or Element.prototype.scrollIntoView
\* by the widget, with the patches in place or (after uninstall) without
ScrollApiCall(api, recv, arg) ==
    LET blocked == blockerInstalled /\ PatchBlocks
    IN  /\ api = "scrollIntoView" => recv \in MarkerNames /\ markers[recv].present
        /\ innerScroll' = IF blocked THEN innerScroll ELSE OrigScroll(api, recv, arg)
        /\ apiLast' = [api |-> api, recv |-> recv, arg |-> arg,
                       patched |-> blockerInstalled,
                       lock |-> lockActive, chat |-> InChatMode,
                       atBottom |-> outerAtBottom, before |-> innerScroll,
                       forwarded |-> IF blocked THEN <<>> ELSE <<recv, arg>>]
        /\ guardDid' = {}
        /\ UNCHANGED <<outerAtBottom, trackerPending, lastEvent, styleListener, uncaught,
                       scrollY, scrollTop, lockBase,
                       lockTimers, blockerInstalled, intentAgo, sinceBump,
                       intentSinceLock>>

\* the host window's "scroll" listener of ensureOuterScrollTracker
TrackerScroll ==
    /\ trackerPending
    /\ trackerPending' = FALSE
    /\ outerAtBottom' = ComputeAtBottom(scrollY)
    /\ apiLast' = NoCall
    /\ guardDid' = {}
    /\ UNCHANGED <<innerScroll, lastEvent, styleListener, uncaught,
                   scrollY, scrollTop, lockBase, lockTimers,
                   blockerInstalled, intentAgo, sinceBump, intentSinceLock>>

\* a step that calls no scroll API: a host scroll it makes queues a
\* "scroll" event for the tracker
NoApiCall ==
    /\ apiLast' = NoCall
    /\ trackerPending' = (trackerPending \/ scrollY' # scrollY)
    /\ UNCHANGED <<innerScroll, outerAtBottom, lastEvent, styleListener, uncaught>>

\* ensureOuterScrollTracker() has run at DOMContentLoaded, the page unscrolled;
\* the second DOMContentLoaded handler has added its load listener when
\* document.getElementById("delphi-frame") found the iframe
ApiInit ==
    /\ innerScroll = 0
    /\ outerAtBottom = ComputeAtBottom(0)
    /\ trackerPending = FALSE
    /\ apiLast = NoCall
    /\ lastEvent = NoEvent
    /\ styleListener = wIframeInDom
    /\ uncaught = 0

(***************************************************************************)
(* installIframeAutoScrollBlocker and its uninstall function, as calls on  *)
(* one iframe window (delphi.js 1397-1416, 1691-1777)                      *)
(*                                                                         *)
(* Every call that installs creates its own handlers and its own uninstall *)
(* closure; a closure is named by the number of the call that made it.     *)
(* An API is the number of wrappers around the browser's function, 0 being *)
(* the original function.                                                  *)
(***************************************************************************)
\* the six addEventListener calls of 1691-1707
ListenerNames == {"onKeyDownCapture", "onClickCapture", "onSubmitCapture",
                  "onWheelCapture", "onTouchMoveCapture", "onKeyIntentCapture"}
\* the three patched functions of 1713-1745
PatchedApis == {"scrollIntoView", "scrollTo", "scrollBy"}

\* the state the lock model starts in: one call has installed
BlockerInit ==
    /\ blockerFlag = TRUE
    /\ docListeners = {1} \X ListenerNames
    /\ winApis = [a \in PatchedApis |-> 1]
    /\ blockerClosures = <<[a \in PatchedApis |-> 0]>>
    /\ winUninstall = 1
    /\ installReturned = 1
    /\ installCalls = 1
    /\ installLast = "install"

\* the body of installIframeAutoScrollBlocker below the install-once guard:
\* flag, closure variables, listeners, patches, uninstall function
InstallBlockerFresh ==
    LET id == Len(blockerClosures) + 1
    IN  /\ blockerFlag' = TRUE
        /\ docListeners' = docListeners \cup ({id} \X ListenerNames)
        /\ blockerClosures' = Append(blockerClosures, winApis)
        /\ winApis' = [a \in PatchedApis |-> winApis[a] + 1]
        /\ winUninstall' = id
        /\ installReturned' = id
        /\ blockerInstalled' = TRUE
        /\ lockActive' = FALSE
        /\ guardRaf' = 0
        /\ idleTimer' = 0
        /\ streamObserver' = "null"
        /\ idleLeft' = 0
        /\ lockedOuterTop' = 0
        /\ lockedScroller' = "null"
        /\ lockedScrollerDetached' = FALSE
        /\ lockedScrollerTop' = 0
        /\ intentAgo' = USER_INTENT_GRACE_MS
        /\ sinceBump' = STREAM_IDLE_MS
        /\ intentSinceLock' = FALSE
        /\ guardDid' = {}
        /\ UNCHANGED <<guardFrames, idleTimeouts, observers, scrollTop, scrollY>>

\* a call without the install-once guard
InstallBlockerCallNoGuard ==
    /\ installCalls' = installCalls + 1
    /\ installLast' = "install"
    /\ InstallBlockerFresh

\* installIframeAutoScrollBlocker(iframe) on an accessible window
InstallBlockerCall ==
    /\ installCalls' = installCalls + 1
    /\ installLast' = "install"
    /\ IF blockerFlag
         THEN /\ installReturned' = IF winUninstall # 0 THEN winUninstall ELSE -1
              /\ UNCHANGED <<blockerFlag, docListeners, winApis, blockerClosures,
                             winUninstall, lockVars, scrollY>>
         ELSE InstallBlockerFresh

\* a call of the uninstall function of closure f (1749-1772)
UninstallCall(f) ==
    /\ f \in 1..Len(blockerClosures)
    /\ installLast' = "uninstall"
    /\ IF blockerInstalled THEN UninstallBlocker ELSE UNCHANGED <<lockVars, scrollY>>
    /\ docListeners' = {l \in docListeners : l[1] # f}
    /\ winApis' = blockerClosures[f]
    /\ UNCHANGED <<blockerFlag, blockerClosures, winUninstall, installReturned,
                   installCalls>>

(***************************************************************************)
(* DOM rules (delphi.js 734-870, part_002 187-201)                         *)
(*                                                                         *)
(* The embedded document is the sequence, in document order, of the        *)
(* elements some rule's selector can match.  An element records which      *)
(* selector it is a candidate of and what the rules read and write of it.  *)
(* Text is a sequence of characters, so that trim() is computed.           *)
(***************************************************************************)
\* elements in the embedded document: 0..MaxElems
MaxElems == 2

\* "Hi, I'm Michael" and "Back to chat center", abbreviated
INTRO_TITLE == <<"H", "i">>
IFRAME_GO_TO_PROFILE == <<"B", "a", "c", "k">>
\* the strings an element's text or a rule's getText() is drawn from
Texts == {<<>>, <<" ">>, <<"H">>, <<"H", "i">>, <<" ", "H", "i">>, <<"H", "i", " ">>}

\* String.prototype.trim
RECURSIVE TrimStart(_)
TrimStart(str) == IF str # <<>> /\ Head(str) = " " THEN TrimStart(Tail(str)) ELSE str
RECURSIVE TrimEnd(_)
TrimEnd(str) ==
    IF str # <<>> /\ str[Len(str)] = " " THEN TrimEnd(SubSeq(str, 1, Len(str) - 1)) ELSE str
Trim(str) == TrimEnd(TrimStart(str))

\* the rule builders; "remove-p2" is ruleRemoveElement of part_002
RuleKinds == {"text", "hide", "remove", "remove-p2", "backlink", "logo"}
\* a rule: its builder and, for ruleForceText, what getText() returns
Rules == {[kind |-> "text", desired |-> t] : t \in Texts}
           \cup {[kind |-> k, desired |-> <<>>] : k \in RuleKinds \ {"text"}}
NoRule == [kind |-> "none", desired |-> <<>>]

\* the selector class of a rule's candidates
SelOf(kind) == IF kind = "remove-p2" THEN "remove" ELSE kind

\* sel: which rule's selector the element is a candidate of;
\* aria: its aria-label; styled: className and inline style as
\* ruleCallHeaderBackToChatLink sets them; flag: the __dvRemoved or
\* __dvBackToChatApplied expando; div: the divider next to the link's span
\* ("none" when there is no sibling with role presentation)
BaseElem == [sel |-> "hide", text |-> <<>>, vis |-> "", pe |-> "", href |-> "null",
             role |-> "null", aria |-> "null", styled |-> FALSE, flag |-> FALSE,
             div |-> "none"]

\* elements as the widget renders them
WidgetElems ==
    {[BaseElem EXCEPT !.sel = "text", !.text = t] : t \in Texts}
      \cup {BaseElem}
      \cup {[BaseElem EXCEPT !.sel = "remove"]}
      \cup {[BaseElem EXCEPT !.sel = "backlink", !.aria = "Delphi", !.href = "/",
                             !.div = d] : d \in {"none", "shown"}}
      \cup {[BaseElem EXCEPT !.sel = "logo", !.aria = "Delphi", !.href = h,
                             !.role = r] : h \in {"null", "/"}, r \in {"null", "link"}}

\* el matches the selector of the rule kind
Matches(el, kind) ==
    /\ el.sel = SelOf(kind)
    /\ kind \in {"backlink", "logo"} => el.aria = "Delphi"

MatchCount(doc, kind) == Cardinality({i \in 1..Len(doc) : Matches(doc[i], kind)})

\* doc.querySelector(selector): the index of the first match, 0 for null
QuerySelector(doc, kind) ==
    IF \E i \in 1..Len(doc) : Matches(doc[i], kind)
      THEN CHOOSE i \in 1..Len(doc) :
             /\ Matches(doc[i], kind)
             /\ \A j \in 1..(i - 1) : ~Matches(doc[j], kind)
      ELSE 0

SetAt(doc, i, el) == [doc EXCEPT ![i] = el]
RemoveAt(doc, i) == SubSeq(doc, 1, i - 1) \o SubSeq(doc, i + 1, Len(doc))
B2N(b) == IF b THEN 1 ELSE 0

\* what apply(doc) leaves: the document, the number of writes it made to
\* the document or to a node, and whether it detached a node
Applied(doc, n, d) == [dom |-> doc, writes |-> n, detached |-> d]

\* ruleForceText(...).apply
RuleForceTextAlways(doc, desired) ==
    LET i == QuerySelector(doc, "text")
    IN  IF i = 0 THEN Applied(doc, 0, FALSE)
        ELSE Applied(SetAt(doc, i, [doc[i] EXCEPT !.text = desired]), 1, FALSE)
RuleForceText(doc, desired) ==
    LET i == QuerySelector(doc, "text")
    IN  IF i = 0 THEN Applied(doc, 0, FALSE)
        ELSE IF Trim(doc[i].text) # desired
               THEN Applied(SetAt(doc, i, [doc[i] EXCEPT !.text = desired]), 1, FALSE)
               ELSE Applied(doc, 0, FALSE)

\* ruleHideButKeepLayout(...).apply
RuleHideButKeepLayout(doc) ==
    LET i == QuerySelector(doc, "hide")
    IN  IF i = 0 THEN Applied(doc, 0, FALSE)
        ELSE IF doc[i].vis # "hidden"
               THEN Applied(SetAt(doc, i, [doc[i] EXCEPT !.vis = "hidden"]), 1, FALSE)
               ELSE Applied(doc, 0, FALSE)

\* ruleRemoveElement(...).apply
RuleRemoveElement(doc) ==
    LET i == QuerySelector(doc, "remove")
    IN  IF i = 0 THEN Applied(doc, 0, FALSE)
        ELSE IF doc[i].flag THEN Applied(doc, 0, FALSE)
        ELSE Applied(RemoveAt(doc, i), 2, TRUE)

\* ruleRemoveElement(...).apply of part_002: no __dvRemoved guard
RuleRemoveElementP2(doc) ==
    LET i == QuerySelector(doc, "remove-p2")
    IN  IF i = 0 THEN Applied(doc, 0, FALSE)
        ELSE Applied(RemoveAt(doc, i), 1, FALSE)

\* ruleCallHeaderBackToChatLink().apply
RuleCallHeaderBackToChatLink(doc) ==
    LET i == QuerySelector(doc, "backlink")
        link == doc[i]
    IN  IF i = 0 THEN Applied(doc, 0, FALSE)
        ELSE IF link.flag THEN Applied(doc, 0, FALSE)
        ELSE Applied(SetAt(doc, i,
                       [link EXCEPT !.flag = TRUE, !.href = "/chat",
                                    !.text = IFRAME_GO_TO_PROFILE, !.styled = TRUE,
                                    !.aria = "Back to Chat center",
                                    !.div = IF @ = "none" THEN "none" ELSE "hidden"]),
                     5 + B2N(link.div # "none"), FALSE)

\* ruleProfileHeaderHideDelphiLogo().apply; removeAttribute of an attribute
\* the element does not have changes nothing
RuleProfileHeaderHideDelphiLogo(doc) ==
    LET i == QuerySelector(doc, "logo")
        el == doc[i]
    IN  IF i = 0 THEN Applied(doc, 0, FALSE)
        ELSE Applied(SetAt(doc, i, [el EXCEPT !.vis = "hidden", !.pe = "none",
                                              !.href = "null", !.role = "null"]),
                     B2N(el.vis # "hidden") + B2N(el.pe # "none")
                       + B2N(el.href # "null") + B2N(el.role # "null"),
                     FALSE)

\* rule.apply(doc)
Apply(rule, doc) ==
    CASE rule.kind = "text" -> RuleForceText(doc, rule.desired)
      [] rule.kind = "hide" -> RuleHideButKeepLayout(doc)
      [] rule.kind = "remove" -> RuleRemoveElement(doc)
      [] rule.kind = "remove-p2" -> RuleRemoveElementP2(doc)
      [] rule.kind = "backlink" -> RuleCallHeaderBackToChatLink(doc)
      [] rule.kind = "logo" -> RuleProfileHeaderHideDelphiLogo(doc)

RulesInit ==
    /\ rDom = <<>>
    /\ rDetached = FALSE
    /\ rLast = NoRule
    /\ rPasses = 0
    /\ rMatches = 0
    /\ rPrev = <<>>
    /\ rWrites = 0

\* the widget changed the document: no rule application is in succession
ruleHistoryReset ==
    /\ rLast' = NoRule
    /\ rPasses' = 0
    /\ rMatches' = 0
    /\ rPrev' = <<>>
    /\ rWrites' = 0

\* one rule.apply(doc) call of runAll
ApplyRule(rule) ==
    LET res == Apply(rule, rDom)
    IN  /\ rDom' = res.dom
        /\ rDetached' = (rDetached \/ res.detached)
        /\ rLast' = rule
        /\ rPasses' = IF rule = rLast THEN Min(2, rPasses + 1) ELSE 1
        /\ rMatches' = IF rule = rLast THEN rMatches ELSE MatchCount(rDom, rule.kind)
        /\ rPrev' = rDom
        /\ rWrites' = res.writes

\* the widget renders a new element at the end of the document
WidgetInsert(el) ==
    /\ Len(rDom) < MaxElems
    /\ rDom' = Append(rDom, el)
    /\ ruleHistoryReset
    /\ UNCHANGED rDetached

\* the widget puts back the node ruleRemoveElement removed
WidgetRemount ==
    /\ rDetached
    /\ Len(rDom) < MaxElems
    /\ rDom' = Append(rDom, [BaseElem EXCEPT !.sel = "remove", !.flag = TRUE])
    /\ rDetached' = FALSE
    /\ ruleHistoryReset

\* the widget re-renders element i: attributes, style and children are as it
\* renders them again, an expando on the node stays
WidgetRerender(i) ==
    /\ i \in 1..Len(rDom)
    /\ \E w \in WidgetElems :
         /\ w.sel = rDom[i].sel
         /\ w.text = IF w.sel = "text" THEN rDom[i].text ELSE w.text
         /\ [w EXCEPT !.flag = rDom[i].flag] # rDom[i]
         /\ rDom' = SetAt(rDom, i, [w EXCEPT !.flag = rDom[i].flag])
    /\ ruleHistoryReset
    /\ UNCHANGED rDetached

\* the widget unmounts element i
WidgetUnmount(i) ==
    /\ i \in 1..Len(rDom)
    /\ rDom' = RemoveAt(rDom, i)
    /\ ruleHistoryReset
    /\ UNCHANGED rDetached

(***************************************************************************)
(* The rule engine at work on the document of the rules (delphi.js         *)
(* 660-719, 734-870, 891-950)                                              *)
(***************************************************************************)
\* a text rule whose getText() returns the title with a leading blank
QuietRulesPaddedTitle ==
    <<[kind |-> "text", desired |-> <<" ">> \o INTRO_TITLE],
      [kind |-> "logo", desired |-> <<>>], [kind |-> "remove", desired |-> <<>>],
      [kind |-> "hide", desired |-> <<>>], [kind |-> "backlink", desired |-> <<>>]>>
\* the rules of registerDelphiDomRules by builder, in its order; the three
\* ruleRemoveElement rules have selectors of their own and are one rule here
QuietRules ==
    <<[kind |-> "text", desired |-> INTRO_TITLE],
      [kind |-> "logo", desired |-> <<>>], [kind |-> "remove", desired |-> <<>>],
      [kind |-> "hide", desired |-> <<>>], [kind |-> "backlink", desired |-> <<>>]>>

\* apply(doc) made a mutation obs reports (childList, characterData):
\* textContent = ... and remove() do, style and attribute writes do not
Observed(rule, doc) ==
    LET res == Apply(rule, doc)
    IN  CASE rule.kind \in {"text", "backlink"} -> res.writes > 0
          [] rule.kind = "remove" -> res.detached
          [] OTHER -> FALSE

\* one turn of the loop of runAll: the document rule.apply(doc) leaves,
\* whether a node was detached so far, and whether obs has records
QuietApply(R, rule) ==
    LET res == Apply(rule, R.dom)
    IN  [dom |-> res.dom,
         detached |-> R.detached \/ res.detached,
         wrote |-> R.wrote \/ Observed(rule, R.dom)]

\* runAll() over the given rules
RECURSIVE QuietRunAll(_, _)
QuietRunAll(R, rules) ==
    IF rules = <<>> THEN R
    ELSE CHOOSE out \in {QuietRunAll(next, rest) :
                           next \in {QuietApply(R, Head(rules))},
                           rest \in {Tail(rules)}} : TRUE

\* the addDelphiDomRule calls of registerDelphiDomRules: each pushes its
\* rule and calls runAll()
RECURSIVE QuietAddRules(_, _)
QuietAddRules(R, n) ==
    IF n > Len(QuietRules) THEN R
    ELSE CHOOSE out \in {QuietAddRules(next, m) :
                           next \in {QuietRunAll(R, SubSeq(QuietRules, 1, n))},
                           m \in {n + 1}} : TRUE

QuietStart == [dom |-> rDom, detached |-> rDetached, wrote |-> FALSE]

\* passes are counted up to this number
MaxQuietPasses == 4
QuietInit ==
    /\ widgetSteps = 0
    /\ quietPasses = 0

\* registerDelphiDomRules(iframe) on a document with body: runtime and
\* observer, then the rules; records of their writes reach scheduleRun
QuietInstall ==
    /\ ~eRuntime
    /\ eRuntime' = TRUE
    /\ LET R == QuietAddRules(QuietStart, 1)
       IN  /\ rDom' = R.dom
           /\ rDetached' = R.detached
           /\ eScheduled' = R.wrote
    /\ UNCHANGED <<rLast, rPasses, rMatches, rPrev, rWrites, quietVars>>

\* the requestAnimationFrame callback of scheduleRun: scheduled = false;
\* runAll(); records of its writes reach scheduleRun
QuietPass ==
    /\ eRuntime
    /\ eScheduled
    /\ LET R == QuietRunAll(QuietStart, QuietRules)
       IN  /\ rDom' = R.dom
           /\ rDetached' = R.detached
           /\ eScheduled' = R.wrote
    /\ quietPasses' = Min(quietPasses + 1, MaxQuietPasses)
    /\ UNCHANGED <<rLast, rPasses, rMatches, rPrev, rWrites, eRuntime, widgetSteps>>

\* the widget changed the child list of the document: obs, if there is
\* one, calls scheduleRun
QuietWidgetStep ==
    /\ widgetSteps' = widgetSteps + 1
    /\ quietPasses' = 0
    /\ eScheduled' = (eScheduled \/ eRuntime)
    /\ UNCHANGED eRuntime

(***************************************************************************)
(* delphi-styling.js: enableIframeAutoResize with the scroll of the first  *)
(* resize (267-337)                                                        *)
(***************************************************************************)
\* Math.floor(window.innerHeight * 0.8), the ratio as a percentage
EARLY_MIN_RATIO_PCT == 80
EarlyMinHeight(v) == (v * EARLY_MIN_RATIO_PCT) \div 100

\* The part of the state one run of resizeIframe() reads and writes.
EarlyState ==
    [h |-> iframeHeight, y |-> scrollY, frd |-> firstResizeDone,
     writes |-> earlyWrites, caught |-> earlyCaught, scrolls |-> earlyScrolls,
     first |-> earlyFirstTarget]

EarlyCommit(s) ==
    /\ iframeHeight' = s.h
    /\ scrollY' = s.y
    /\ firstResizeDone' = s.frd
    /\ earlyWrites' = s.writes
    /\ earlyCaught' = s.caught
    /\ earlyScrolls' = s.scrolls
    /\ earlyFirstTarget' = s.first

\* the block under if (!firstResizeDone): window.scrollY + rect.bottom is
\* the page offset of the iframe's bottom edge, IframeTop + height
EarlyAutoScroll(s, v) ==
    LET targetScrollTop == (IframeTop + s.h) - v
    IN  IF ~s.frd
          THEN IF targetScrollTop > 0
                 THEN [s EXCEPT !.frd = TRUE, !.y = targetScrollTop,
                                !.scrolls = @ + 1]
                 ELSE [s EXCEPT !.frd = TRUE]
          ELSE s

\* resizeIframe() of delphi-styling.js in a window of inner height v, with
\* the document reachable or not.
\* After the three style writes, console.log(..., height) reads an
\* identifier the script declares in no enclosing scope (finalHeight is the
\* name it declared): where the host page binds no global of that name the
\* read throws a ReferenceError, which the catch block logs, and the rest of
\* the try block is skipped.
ResizeIframeEarly(s, v, docOk) ==
    IF ~docOk
      THEN s
      ELSE LET contentHeight == scrollH["docEl"]
               minHeight == EarlyMinHeight(v)
               finalHeight == Max(contentHeight, minHeight)
               s1 == [s EXCEPT !.h = finalHeight,
                               !.writes = @ + 1,
                               !.first = IF s.writes = 0
                                           THEN (IframeTop + finalHeight) - v
                                           ELSE @]
           IN  IF heightBound
                 THEN EarlyAutoScroll(s1, v)
                 ELSE [s1 EXCEPT !.caught = @ + 1]

EarlyInit ==
    /\ firstResizeDone = FALSE
    /\ earlyTimeouts = 0
    /\ heightBound = FALSE
    /\ earlyWrites = 0
    /\ earlyCaught = 0
    /\ earlyScrolls = 0
    /\ earlyFirstTarget = "none"

\* the iframe's load listener: resizeIframe() and two timeouts
EarlyLoad(docOk) ==
    /\ EarlyCommit(ResizeIframeEarly(EarlyState, innerHeight, docOk))
    /\ earlyTimeouts' = earlyTimeouts + 2
    /\ UNCHANGED <<heightBound, innerHeight, scrollH>>

\* one of the setTimeout(resizeIframe, ...) callbacks
EarlyTimeout(docOk) ==
    /\ earlyTimeouts > 0
    /\ earlyTimeouts' = earlyTimeouts - 1
    /\ EarlyCommit(ResizeIframeEarly(EarlyState, innerHeight, docOk))
    /\ UNCHANGED <<heightBound, innerHeight, scrollH>>

\* setInterval(resizeIframe, 1500)
EarlyIntervalTick(docOk) ==
    /\ EarlyCommit(ResizeIframeEarly(EarlyState, innerHeight, docOk))
    /\ UNCHANGED <<earlyTimeouts, heightBound, innerHeight, scrollH>>

\* the user resizes the host window: the "resize" listener is resizeIframe
EarlyWindowResize(v, docOk) ==
    /\ v # innerHeight
    /\ innerHeight' = v
    /\ EarlyCommit(ResizeIframeEarly(EarlyState, v, docOk))
    /\ UNCHANGED <<earlyTimeouts, heightBound, scrollH>>

\* the host page comes to bind a global named height (an element with that
\* id, a script's variable)
HostBindsHeight ==
    /\ ~heightBound
    /\ heightBound' = TRUE
    /\ UNCHANGED <<firstResizeDone, earlyTimeouts, earlyWrites, earlyCaught,
                   earlyScrolls, earlyFirstTarget, geomVars>>

(***************************************************************************)
(* Final revision: enableIframeAutoResize (delphi.js 1077-1367), installed *)
(* by the poll of waitForIframe that finds the iframe                      *)
(***************************************************************************)
MODE_ENTRY_STABILIZE_MAX_MS == 450
MODE_ENTRY_STABLE_FRAMES == 2
MODE_ENTRY_STABLE_EPS_PX == 2

\* the host window is resized between these heights
ViewportLarge == 200
Viewports == {ViewportSmall, ViewportLarge}
\* stabilization loops in flight at one time: at most MaxLoops
MaxLoops == 1
\* time passes between two frames in these amounts (ms)
StabSteps == {MODE_ENTRY_STABILIZE_MAX_MS}
\* the views the widget mounts under this reconciler, with the scrollHeight
\* each mounts at, and the elements whose content grows and shrinks later
MarkersFinal == {"call", "convo", "profile"}
MountsFinal == {<<"call", ContentSmall>>, <<"convo", ContentLarge>>,
                <<"profile", ContentSmall>>}
GrowingFinal == {"call"}

Abs(x) == IF x < 0 THEN -x ELSE x

\* getActiveHeightRoot(mode), as the name of the element
GetActiveHeightRoot(doc, mode) ==
    IF mode = "call_mode"
      THEN IF QueryVisible(doc, "call") THEN "call" ELSE "body"
    ELSE IF mode = "chat_mode"
      THEN IF QueryVisible(doc, "convo") THEN "convo"
           ELSE IF QueryVisible(doc, "talk") THEN "talk" ELSE "body"
    ELSE IF mode = "overview_mode"
      THEN IF QueryVisible(doc, "profile") THEN "profile" ELSE "body"
    ELSE "body"

\* The part of the state one handler of enableIframeAutoResize reads and
\* writes, threaded through the calls the handler makes.
ResizeState ==
    [h |-> iframeHeight, lm |-> lastMode, paint |-> paintFrames,
     busy |-> iframeBusy, loops |-> stabLoops, calls |-> <<>>]

ResizeCommit(s) ==
    /\ iframeHeight' = s.h
    /\ lastMode' = s.lm
    /\ paintFrames' = s.paint
    /\ iframeBusy' = s.busy
    /\ stabLoops' = s.loops

\* resizeIframe()
ResizeIframeNoFloor(s) ==
    LET mode == GetDelphiMode(markers)
        root == GetActiveHeightRoot(markers, mode)
    IN  [s EXCEPT !.h = scrollH[root]]
\* a measurement that always takes the document's scrollHeight in
ResizeIframeAlwaysDoc(s) ==
    LET mode == GetDelphiMode(markers)
        minHeight == MinHeight(innerHeight)
        root == GetActiveHeightRoot(markers, mode)
        convoH == IF markers["convo"].present THEN scrollH["convo"] ELSE 0
        talkH == IF markers["talk"].present THEN scrollH["talk"] ELSE 0
        rootH == scrollH[root]
        docH == scrollH["docEl"]
        best == Max(Max(convoH, talkH), rootH)
        contentHeight ==
            IF mode = "chat_mode" THEN Max(best, docH) ELSE scrollH[root]
    IN  [s EXCEPT !.h = Max(contentHeight, minHeight)]
ResizeIframe(s) ==
    LET mode == GetDelphiMode(markers)
        minHeight == MinHeight(innerHeight)
        root == GetActiveHeightRoot(markers, mode)
        convoH == IF markers["convo"].present THEN scrollH["convo"] ELSE 0
        talkH == IF markers["talk"].present THEN scrollH["talk"] ELSE 0
        rootH == scrollH[root]
        docH == scrollH["docEl"]
        best == Max(Max(convoH, talkH), rootH)
        contentHeight ==
            IF mode = "chat_mode"
              THEN IF best = 0 \/ docH * 10 <= best * 12 THEN Max(best, docH) ELSE best
              ELSE scrollH[root]
    IN  [s EXCEPT !.h = Max(contentHeight, minHeight)]

\* stabilizeHeightOnModeEntry(targetMode), up to its first requestAnimationFrame
StabilizeHeightOnModeEntry(s, targetMode) ==
    LET minHeight == MinHeight(innerHeight)
    IN  [s EXCEPT !.busy = TRUE,
                  !.h = minHeight,
                  !.loops = @ \cup {[target |-> targetMode, minHeight |-> minHeight,
                                     lastMeasured |-> -1, stableFrames |-> 0,
                                     elapsed |-> 0, reveal |-> FALSE]}]

\* a handler that leaves lastMode as it was
HandleModeChangeKeepsLast(s, nextMode) ==
    LET s1 == IF nextMode = "chat_mode" THEN [s EXCEPT !.paint = @ \cup {"outer"}] ELSE s
        s2 == IF nextMode \in {"call_mode", "overview_mode"}
                THEN StabilizeHeightOnModeEntry(s1, nextMode) ELSE s1
    IN  [s2 EXCEPT !.calls = Append(@, nextMode)]
\* handleModeChange(nextMode, source); calls is the record of its calls
\* within one handler
HandleModeChange(s, nextMode) ==
    LET s1 == IF nextMode = "chat_mode" THEN [s EXCEPT !.paint = @ \cup {"outer"}] ELSE s
        s2 == IF nextMode \in {"call_mode", "overview_mode"}
                THEN StabilizeHeightOnModeEntry(s1, nextMode) ELSE s1
    IN  [s2 EXCEPT !.lm = nextMode, !.calls = Append(@, nextMode)]

\* the mode test both detectors make before handleModeChange
DetectChange(s) ==
    LET modeNow == GetDelphiMode(markers)
    IN  IF modeNow # s.lm THEN HandleModeChange(s, modeNow) ELSE s

\* a detection that starts a stabilization loop needs room for it: at most
\* n loops are in flight at a time
RoomFor(n) ==
    (GetDelphiMode(markers) # lastMode
       /\ GetDelphiMode(markers) \in {"call_mode", "overview_mode"})
        => Cardinality(stabLoops) < n
LoopRoom == RoomFor(MaxLoops)

ResizeInit ==
    /\ autoResizeInstalled = FALSE
    /\ lastMode = "unknown_mode"
    /\ checkScheduled = FALSE
    /\ paintFrames = {}
    /\ iframeBusy = FALSE
    /\ stabLoops = {}

docVars == <<markers, modeResult, scrollH>>

DetectInit ==
    /\ handled = <<>>
    /\ detected = "none"

\* one run of waitForIframe's setInterval callback; with the iframe found,
\* onFound runs injectOverridesIntoIframe and so enableIframeAutoResize
Poll(late) ==
    /\ WaitPoll(late)
    /\ IF wIframeInDom
         THEN /\ autoResizeInstalled' = TRUE
              /\ lastMode' = GetDelphiMode(markers)
              /\ checkScheduled' = TRUE
              /\ iframeHeight' = ResizeIframe(ResizeState).h
              /\ UNCHANGED <<paintFrames, iframeBusy, stabLoops>>
         ELSE UNCHANGED <<resizeVars, iframeHeight>>
    /\ UNCHANGED <<docVars, innerHeight>>

\* the setInterval callback of enableIframeAutoResize
IntervalTick ==
    /\ autoResizeInstalled
    /\ ResizeCommit(DetectChange(ResizeIframe(ResizeState)))
    /\ UNCHANGED <<waitVars, docVars, innerHeight, autoResizeInstalled, checkScheduled>>

\* the MutationObserver callback scheduleCheck, for a mutation that leaves
\* the markers and the measured heights as they are
ModeMutation ==
    /\ autoResizeInstalled
    /\ ~checkScheduled
    /\ checkScheduled' = TRUE
    /\ UNCHANGED <<waitVars, docVars, innerHeight, iframeHeight, autoResizeInstalled,
                   lastMode, paintFrames, iframeBusy, stabLoops>>

\* the requestAnimationFrame callback of scheduleCheck
ModeCheckFrame ==
    /\ checkScheduled
    /\ checkScheduled' = FALSE
    /\ ResizeCommit(DetectChange(ResizeState))
    /\ UNCHANGED <<waitVars, docVars, innerHeight, autoResizeInstalled>>

\* afterNextPaint: the first frame requests the second
PaintOuterFrame ==
    /\ "outer" \in paintFrames
    /\ paintFrames' = (paintFrames \ {"outer"}) \cup {"inner"}
    /\ UNCHANGED <<waitVars, docVars, innerHeight, iframeHeight, autoResizeInstalled,
                   lastMode, checkScheduled, iframeBusy, stabLoops>>

\* afterNextPaint: the second frame runs resizeIframe()
PaintInnerFrame ==
    /\ "inner" \in paintFrames
    /\ ResizeCommit(ResizeIframe([ResizeState EXCEPT !.paint = @ \ {"inner"}]))
    /\ UNCHANGED <<waitVars, docVars, innerHeight, autoResizeInstalled, checkScheduled>>

StabTickNoDeadline(l) ==
    /\ l \in stabLoops
    /\ ~l.reveal
    /\ LET modeNow == GetDelphiMode(markers)
           root == GetActiveHeightRoot(markers, modeNow)
           contentHeight == scrollH[root]
           nextHeight == Max(contentHeight, l.minHeight)
           stableFrames ==
               IF l.lastMeasured >= 0
                    /\ Abs(nextHeight - l.lastMeasured) <= MODE_ENTRY_STABLE_EPS_PX
                 THEN l.stableFrames + 1 ELSE 0
           done == stableFrames >= MODE_ENTRY_STABLE_FRAMES
       IN  IF modeNow # l.target
             THEN /\ iframeBusy' = FALSE
                  /\ stabLoops' = stabLoops \ {l}
                  /\ UNCHANGED iframeHeight
             ELSE /\ iframeHeight' = nextHeight
                  /\ stabLoops' = (stabLoops \ {l}) \cup
                        {[l EXCEPT !.lastMeasured = nextHeight,
                                   !.stableFrames = stableFrames,
                                   !.reveal = done]}
                  /\ UNCHANGED iframeBusy
    /\ UNCHANGED <<waitVars, docVars, innerHeight, autoResizeInstalled, lastMode,
                   checkScheduled, paintFrames>>

\* a tick that goes on measuring whatever the mode
StabTickNoAbort(l) ==
    /\ l \in stabLoops
    /\ ~l.reveal
    /\ LET modeNow == GetDelphiMode(markers)
           root == GetActiveHeightRoot(markers, modeNow)
           contentHeight == scrollH[root]
           nextHeight == Max(contentHeight, l.minHeight)
           stableFrames ==
               IF l.lastMeasured >= 0
                    /\ Abs(nextHeight - l.lastMeasured) <= MODE_ENTRY_STABLE_EPS_PX
                 THEN l.stableFrames + 1 ELSE 0
           done == stableFrames >= MODE_ENTRY_STABLE_FRAMES
                     \/ l.elapsed >= MODE_ENTRY_STABILIZE_MAX_MS
       IN  /\ iframeHeight' = nextHeight
           /\ stabLoops' = (stabLoops \ {l}) \cup
                 {[l EXCEPT !.lastMeasured = nextHeight,
                            !.stableFrames = stableFrames,
                            !.reveal = done]}
           /\ UNCHANGED iframeBusy
    /\ UNCHANGED <<waitVars, docVars, innerHeight, autoResizeInstalled, lastMode,
                   checkScheduled, paintFrames>>

\* tick of the stabilization loop l
StabTick(l) ==
    /\ l \in stabLoops
    /\ ~l.reveal
    /\ LET modeNow == GetDelphiMode(markers)
           root == GetActiveHeightRoot(markers, modeNow)
           contentHeight == scrollH[root]
           nextHeight == Max(contentHeight, l.minHeight)
           stableFrames ==
               IF l.lastMeasured >= 0
                    /\ Abs(nextHeight - l.lastMeasured) <= MODE_ENTRY_STABLE_EPS_PX
                 THEN l.stableFrames + 1 ELSE 0
           done == stableFrames >= MODE_ENTRY_STABLE_FRAMES
                     \/ l.elapsed >= MODE_ENTRY_STABILIZE_MAX_MS
       IN  IF modeNow # l.target
             THEN /\ iframeBusy' = FALSE
                  /\ stabLoops' = stabLoops \ {l}
                  /\ UNCHANGED iframeHeight
             ELSE /\ iframeHeight' = nextHeight
                  /\ stabLoops' = (stabLoops \ {l}) \cup
                        {[l EXCEPT !.lastMeasured = nextHeight,
                                   !.stableFrames = stableFrames,
                                   !.reveal = done]}
                  /\ UNCHANGED iframeBusy
    /\ UNCHANGED <<waitVars, docVars, innerHeight, autoResizeInstalled, lastMode,
                   checkScheduled, paintFrames>>

\* the frame a finished loop requested: setIframeBusy(iframe, false)
StabReveal(l) ==
    /\ l \in stabLoops
    /\ l.reveal
    /\ iframeBusy' = FALSE
    /\ stabLoops' = stabLoops \ {l}
    /\ UNCHANGED <<waitVars, docVars, innerHeight, iframeHeight, autoResizeInstalled,
                   lastMode, checkScheduled, paintFrames>>

\* d ms pass while stabilization loops are in flight
StabAdvance(d) ==
    /\ \E l \in stabLoops : ~l.reveal /\ l.elapsed < MODE_ENTRY_STABILIZE_MAX_MS
    /\ stabLoops' = {[l EXCEPT !.elapsed = Min(MODE_ENTRY_STABILIZE_MAX_MS, @ + d)] :
                       l \in stabLoops}
    /\ UNCHANGED <<waitVars, docVars, innerHeight, iframeHeight, autoResizeInstalled,
                   lastMode, checkScheduled, paintFrames, iframeBusy>>

\* the user resizes the host window; this revision listens to no resize event
ViewportChange(v) ==
    /\ v # innerHeight
    /\ innerHeight' = v
    /\ UNCHANGED <<waitVars, docVars, iframeHeight, resizeVars>>

\* a mount or unmount is a childList mutation under doc.body: the mode
\* observer, once installed, calls scheduleCheck
ObservedMount(m, h) ==
    /\ Mount(m, h)
    /\ checkScheduled' = (checkScheduled \/ autoResizeInstalled)
    /\ UNCHANGED <<waitVars, innerHeight, iframeHeight, autoResizeInstalled, lastMode,
                   paintFrames, iframeBusy, stabLoops>>

ObservedUnmount(m) ==
    /\ Unmount(m)
    /\ checkScheduled' = (checkScheduled \/ autoResizeInstalled)
    /\ UNCHANGED <<waitVars, innerHeight, iframeHeight, autoResizeInstalled, lastMode,
                   paintFrames, iframeBusy, stabLoops>>

(***************************************************************************)
(* injectOverridesIntoIframe (delphi.js 1780-1901) and the install-once    *)
(* guards of what it installs, over the documents the iframe shows         *)
(***************************************************************************)
\* the iframe reloads at most MaxReloads times
MaxReloads == 2
Gens == 0..MaxReloads

\* the names registerDelphiDomRules registers, in its order
RuleNames == <<"overview-title", "profile-header-delphi-logo-hidden",
               "chat-header-title-removed", "scroll-to-bottom-removed",
               "call-header-profile-block-hidden", "call-header-back-to-chat-link",
               "call-mode-name-h2-removed">>

SeqRange(sq) == {sq[i] : i \in 1..Len(sq)}

\* a document nothing was installed on: runtime is doc.__dvWatcherRuntime,
\* rules its runtime.rules (names), ruleObservers the observers of
\* ensureDelphiWatcherRuntime, modeObserverInstalled
\* doc.__dvModeObserverInstalled, listeners the listener sets of the scroll
\* blocker, styles the style elements with id dv-delphi-overrides, injects
\* the injectOverridesIntoIframe calls that saw this document
FreshDoc == [runtime |-> FALSE, rules |-> <<>>, ruleObservers |-> 0,
             modeObserverInstalled |-> FALSE, modeObservers |-> 0,
             listeners |-> 0, styles |-> 0, injects |-> 0]
\* a window nothing was installed on: blockerInstalled is
\* win.__dvAutoScrollBlockerInstalled, patches the times scrollTo, scrollBy
\* and scrollIntoView were wrapped
FreshWin == [blockerInstalled |-> FALSE, patches |-> 0]

\* The part of the state injectOverridesIntoIframe reads and writes,
\* threaded through the calls it makes; body is whether the document the
\* call sees has a body element.
SetupState ==
    [docs |-> docs, wins |-> wins, rulesFlag |-> dvDomRulesInstalled,
     resizeFlag |-> autoResizeInstalled, resizeDoc |-> resizeDoc,
     intervals |-> resizeIntervals, body |-> TRUE]

SetupCommit(S) ==
    /\ docs' = S.docs
    /\ wins' = S.wins
    /\ dvDomRulesInstalled' = S.rulesFlag
    /\ resizeDoc' = S.resizeDoc
    /\ resizeIntervals' = S.intervals

\* installIframeAutoScrollBlocker(iframe): install-once per iframe window
InstallIframeAutoScrollBlockerNoGuard(S) ==
    [S EXCEPT !.wins[winGen].blockerInstalled = TRUE,
              !.wins[winGen].patches = @ + 1,
              !.docs[docGen].listeners = @ + 1]
InstallIframeAutoScrollBlocker(S) ==
    IF S.wins[winGen].blockerInstalled THEN S
    ELSE [S EXCEPT !.wins[winGen].blockerInstalled = TRUE,
                   !.wins[winGen].patches = @ + 1,
                   !.docs[docGen].listeners = @ + 1]

\* doInject: the style element is looked up by id before it is created
InjectStyle(S) ==
    IF S.docs[docGen].styles = 0 THEN [S EXCEPT !.docs[docGen].styles = 1] ELSE S

\* ensureDelphiWatcherRuntime(iframe): null, and nothing created, for a
\* document without body
EnsureDelphiWatcherRuntime(S) ==
    IF ~S.body THEN S
    ELSE IF S.docs[docGen].runtime THEN S
    ELSE [S EXCEPT !.docs[docGen].runtime = TRUE,
                   !.docs[docGen].ruleObservers = @ + 1]

\* addDelphiDomRule(iframe, rule): if (!runtime) return
AddDelphiDomRule(S, name) ==
    LET S1 == EnsureDelphiWatcherRuntime(S)
    IN  IF ~S.body THEN S1
        ELSE IF name \in SeqRange(S1.docs[docGen].rules) THEN S1
        ELSE [S1 EXCEPT !.docs[docGen].rules = Append(@, name)]

RECURSIVE AddDelphiDomRules(_, _)
AddDelphiDomRules(S, names) ==
    IF names = <<>> THEN S
    ELSE AddDelphiDomRules(AddDelphiDomRule(S, Head(names)), Tail(names))

\* registerDelphiDomRules(iframe)
RegisterDelphiDomRules(S) ==
    IF S.rulesFlag THEN S
    ELSE AddDelphiDomRules([S EXCEPT !.rulesFlag = TRUE], RuleNames)

\* enableIframeAutoResize(iframe): what it installs
EnableIframeAutoResize(S) ==
    IF S.resizeFlag THEN S
    ELSE LET S1 == [S EXCEPT !.resizeFlag = TRUE, !.resizeDoc = docGen,
                             !.intervals = @ + 1]
         IN  IF S1.docs[docGen].modeObserverInstalled \/ ~S.body THEN S1
             ELSE [S1 EXCEPT !.docs[docGen].modeObserverInstalled = TRUE,
                             !.docs[docGen].modeObservers = @ + 1]

\* injectOverridesIntoIframe(iframe), the document being reachable with its
\* head and body
InjectOverridesIntoIframe(S) ==
    EnableIframeAutoResize(
      RegisterDelphiDomRules(
        InjectStyle(
          InstallIframeAutoScrollBlocker(
            [S EXCEPT !.docs[docGen].injects = @ + 1]))))

SetupInit ==
    /\ docGen = 0
    /\ winGen = 0
    /\ loadPending = FALSE
    /\ loadListeners = 0
    /\ dvDomRulesInstalled = FALSE
    /\ resizeDoc = -1
    /\ resizeIntervals = 0
    /\ docs = [g \in Gens |-> FreshDoc]
    /\ wins = [g \in Gens |-> FreshWin]

\* the poll of waitForIframe that finds the iframe: onFound injects and
\* adds the load listener.  stillLoading: the document it sees has not
\* fired its load event yet; hasBody: it has a body element by now
FoundSetupAt(stillLoading, hasBody) ==
    /\ wIframeInDom
    /\ Poll(0)
    /\ SetupCommit(InjectOverridesIntoIframe([SetupState EXCEPT !.body = hasBody]))
    /\ loadListeners' = loadListeners + 1
    /\ loadPending' = stillLoading
    /\ UNCHANGED <<docGen, winGen>>
FoundSetup(stillLoading) == FoundSetupAt(stillLoading, TRUE)

\* the iframe navigates: a new document, and a new Window unless the
\* navigation replaces the initial about:blank document, which may keep it
Reload(newWindow) ==
    /\ wFound > 0
    /\ docGen < MaxReloads
    /\ ~newWindow => docGen = 0
    /\ docGen' = docGen + 1
    /\ winGen' = IF newWindow THEN winGen + 1 ELSE winGen
    /\ loadPending' = TRUE
    /\ UNCHANGED <<loadListeners, dvDomRulesInstalled, resizeDoc, resizeIntervals,
                   docs, wins, waitVars, docVars, innerHeight, iframeHeight, resizeVars>>

\* the iframe's load event: the listener of onFound injects again.  With
\* __dvAutoResizeInstalled set, enableIframeAutoResize returns at once.
LoadEvent ==
    /\ loadPending
    /\ loadListeners > 0
    /\ loadPending' = FALSE
    /\ LET S == InjectOverridesIntoIframe(SetupState)
       IN  SetupCommit(S) /\ autoResizeInstalled' = S.resizeFlag
    /\ UNCHANGED <<docGen, winGen, loadListeners, waitVars, docVars, innerHeight,
                   iframeHeight, lastMode, checkScheduled, paintFrames, iframeBusy,
                   stabLoops>>

(***************************************************************************)
(* The rule engine (delphi.js 660-719) and the mode check (1302-1366)      *)
(* over animation frames                                                   *)
(***************************************************************************)
\* how many of the rules of registerDelphiDomRules the engine model carries
MaxEngineRules == 2
EngineRuleNames == SubSeq(RuleNames, 1, MaxEngineRules)

\* the kinds of mutation a MutationObserver can be asked to report
MutationKinds == {"childList", "characterData", "attributes"}
\* obs.observe(doc.body, { childList: true, subtree: true, characterData: true })
RuleObserverKinds == {"childList", "characterData"}
\* modeObserver.observe(doc.body, { childList: true, subtree: true, attributes: true })
ModeObserverKinds == {"childList", "attributes"}

\* what a rule's write is, as a mutation: textContent and remove() change
\* the child list, style and setAttribute change attributes
WriteKind(name) ==
    IF name \in {"overview-title", "chat-header-title-removed",
                 "scroll-to-bottom-removed", "call-mode-name-h2-removed"}
      THEN "childList" ELSE "attributes"

\* how the widget can undo what a rule enforces: a text by a new child or
\* an edited text node, a style or an attribute by setting it or by a new
\* element, a removal by inserting the element again
DriftKinds(name) ==
    IF name = "overview-title" THEN {"childList", "characterData"}
    ELSE IF name \in {"chat-header-title-removed", "scroll-to-bottom-removed",
                      "call-mode-name-h2-removed"} THEN {"childList"}
    ELSE IF name = "call-header-back-to-chat-link" THEN MutationKinds
    ELSE {"childList", "attributes"}

NoPass == [applied |-> {}, thrown |-> {}, escaped |-> FALSE]

\* The part of the state the rule engine reads and writes, threaded through
\* the calls one handler makes; wrote: a rule wrote what the engine's
\* observer reports.
EngineState ==
    [rules |-> eRules, runtime |-> eRuntime, scheduled |-> eScheduled,
     queued |-> eQueued, enforced |-> eEnforced, changed |-> eChanged,
     owed |-> eOwed, pass |-> lastPass, wrote |-> FALSE]

EngineCommit(E) ==
    /\ eRules' = E.rules
    /\ eRuntime' = E.runtime
    /\ eScheduled' = E.scheduled
    /\ eQueued' = E.queued
    /\ eEnforced' = E.enforced
    /\ eChanged' = E.changed
    /\ eOwed' = E.owed
    /\ lastPass' = E.pass

\* scheduleRun(); without the flag, MaxQueued callbacks at most are counted
MaxQueued == 2
ScheduleRunNoDebounce(E) ==
    [E EXCEPT !.scheduled = TRUE, !.queued = Min(@ + 1, MaxQueued)]
ScheduleRun(E) ==
    IF E.scheduled THEN E
    ELSE [E EXCEPT !.scheduled = TRUE, !.queued = @ + 1]

\* one turn of the loop of runAll: try { rule.apply(doc) } catch { dvWarn };
\* throwing: the rules whose apply throws in this handler
ApplyRuleUncaught(E, name, throwing) ==
    IF name \in throwing
      THEN [E EXCEPT !.pass.thrown = @ \cup {name}, !.pass.escaped = TRUE]
      ELSE [E EXCEPT !.pass.applied = @ \cup {name},
                     !.enforced = @ \cup {name},
                     !.wrote = @ \/ (name \notin E.enforced
                                       /\ WriteKind(name) \in RuleObserverKinds)]
ApplyRuleCaught(E, name, throwing) ==
    IF name \in throwing
      THEN [E EXCEPT !.pass.thrown = @ \cup {name}]
      ELSE [E EXCEPT !.pass.applied = @ \cup {name},
                     !.enforced = @ \cup {name},
                     !.wrote = @ \/ (name \notin E.enforced
                                       /\ WriteKind(name) \in RuleObserverKinds)]

\* for (const rule of runtime.rules): an exception that leaves the loop
\* body ends the loop
RECURSIVE RunRules(_, _, _)
RunRules(E, rules, throwing) ==
    IF rules = <<>> \/ E.pass.escaped THEN E
    ELSE RunRules(ApplyRuleCaught(E, Head(rules), throwing), Tail(rules), throwing)

\* runAll()
RunAll(E, throwing) ==
    RunRules([E EXCEPT !.pass = NoPass, !.changed = {}, !.owed = {}], E.rules, throwing)

\* the observer's callback, a microtask after the handler that wrote
AfterWrites(E) == IF E.wrote THEN ScheduleRun(E) ELSE E

\* addDelphiDomRule for each name in turn, the runtime being created by
\* the first (its runAll() over no rules included)
RECURSIVE AddRules(_, _, _)
AddRules(E, names, throwing) ==
    IF names = <<>> THEN E
    ELSE LET E1 == IF E.runtime THEN E
                   ELSE RunAll([E EXCEPT !.runtime = TRUE], throwing)
             name == Head(names)
             E2 == IF name \in SeqRange(E1.rules) THEN E1
                   ELSE RunAll([E1 EXCEPT !.rules = Append(@, name)], throwing)
         IN  AddRules(E2, Tail(names), throwing)

EngineInit ==
    /\ eRuntime = FALSE
    /\ eRules = <<>>
    /\ eScheduled = FALSE
    /\ eQueued = 0
    /\ eEnforced = {}
    /\ eChanged = {}
    /\ eOwed = {}
    /\ lastPass = NoPass
    /\ eTicked = FALSE

FrameInit ==
    /\ inFrame = FALSE
    /\ frameRules = 0
    /\ frameCheck = FALSE
    /\ frameLoops = {}
    /\ framePasses = 0
    /\ frameHandles = 0

\* onFound, a timer task: registerDelphiDomRules, then enableIframeAutoResize
EngineInstall(throwing) ==
    /\ ~inFrame
    /\ wIframeInDom
    /\ Poll(0)
    /\ EngineCommit(AfterWrites(AddRules(EngineState, EngineRuleNames, throwing)))
    /\ UNCHANGED <<eTicked, frameVars>>

\* the widget changes the target of a rule away from what the rule
\* enforces, by a mutation of the given kind; both observers get their
\* records in a microtask
WidgetChange(name, kind) ==
    /\ eRuntime
    /\ name \in SeqRange(eRules)
    /\ kind \in DriftKinds(name)
    /\ LET E == [EngineState EXCEPT !.enforced = @ \ {name},
                                    !.changed = @ \cup {kind}]
       IN  EngineCommit(IF kind \in RuleObserverKinds THEN ScheduleRun(E) ELSE E)
    /\ checkScheduled' = (checkScheduled \/ (autoResizeInstalled /\ kind \in ModeObserverKinds))
    /\ eTicked' = FALSE
    /\ UNCHANGED <<waitVars, docVars, innerHeight, iframeHeight, autoResizeInstalled,
                   lastMode, paintFrames, iframeBusy, stabLoops, frameVars>>

\* the widget mounts or unmounts a view: a childList mutation
EngineMount(m, h) ==
    /\ ObservedMount(m, h)
    /\ LET E == [EngineState EXCEPT !.changed = IF eRuntime THEN @ \cup {"childList"} ELSE @]
       IN  EngineCommit(IF eRuntime THEN ScheduleRun(E) ELSE E)
    /\ eTicked' = FALSE
    /\ UNCHANGED frameVars

EngineUnmount(m) ==
    /\ ObservedUnmount(m)
    /\ LET E == [EngineState EXCEPT !.changed = IF eRuntime THEN @ \cup {"childList"} ELSE @]
       IN  EngineCommit(IF eRuntime THEN ScheduleRun(E) ELSE E)
    /\ eTicked' = FALSE
    /\ UNCHANGED frameVars

\* the interval callback of enableIframeAutoResize, a timer task
EngineIntervalTick ==
    /\ ~inFrame
    /\ IntervalTick
    /\ eTicked' = TRUE
    /\ UNCHANGED <<eRuntime, eRules, eScheduled, eQueued, eEnforced, eChanged, eOwed,
                   lastPass, frameVars>>

\* an animation frame begins: the callbacks requested so far are its list
BeginFrame ==
    /\ ~inFrame
    /\ inFrame' = TRUE
    /\ frameRules' = eQueued
    /\ eQueued' = 0
    /\ frameCheck' = checkScheduled
    /\ frameLoops' = stabLoops
    /\ framePasses' = 0
    /\ frameHandles' = 0
    /\ eOwed' = eChanged
    /\ UNCHANGED <<eRuntime, eRules, eScheduled, eEnforced, eChanged, lastPass, eTicked,
                   waitVars, docVars, innerHeight, iframeHeight, resizeVars>>

\* the requestAnimationFrame callback of scheduleRun
FrameRules(throwing) ==
    /\ inFrame
    /\ frameRules > 0
    /\ frameRules' = frameRules - 1
    /\ framePasses' = framePasses + 1
    /\ EngineCommit(AfterWrites(RunAll([EngineState EXCEPT !.scheduled = FALSE], throwing)))
    /\ UNCHANGED <<eTicked, inFrame, frameCheck, frameLoops, frameHandles,
                   waitVars, docVars, innerHeight, iframeHeight, resizeVars>>

\* the requestAnimationFrame callback of scheduleCheck
FrameCheck ==
    /\ inFrame
    /\ frameCheck
    /\ frameCheck' = FALSE
    /\ ModeCheckFrame
    /\ frameHandles' = frameHandles + (IF GetDelphiMode(markers) # lastMode THEN 1 ELSE 0)
    /\ UNCHANGED <<engineVars, inFrame, frameRules, frameLoops, framePasses>>

\* the stabilization callbacks of this frame
FrameStabTick(l) ==
    /\ inFrame
    /\ l \in frameLoops
    /\ frameLoops' = frameLoops \ {l}
    /\ StabTick(l)
    /\ UNCHANGED <<engineVars, inFrame, frameRules, frameCheck, framePasses,
                   frameHandles>>

FrameStabReveal(l) ==
    /\ inFrame
    /\ l \in frameLoops
    /\ frameLoops' = frameLoops \ {l}
    /\ StabReveal(l)
    /\ UNCHANGED <<engineVars, inFrame, frameRules, frameCheck, framePasses,
                   frameHandles>>

\* every callback of the frame has run
EndFrame ==
    /\ inFrame
    /\ frameRules = 0
    /\ ~frameCheck
    /\ frameLoops = {}
    /\ inFrame' = FALSE
    /\ UNCHANGED <<engineVars, frameRules, frameCheck, frameLoops, framePasses,
                   frameHandles, waitVars, docVars, innerHeight, iframeHeight, resizeVars>>

(***************************************************************************)
(* resizeIframe() (delphi.js 1157-1203) over documents and measured        *)
(* heights drawn from bounded sets                                         *)
(***************************************************************************)
\* scrollHeights around the 1.2 ratio of the chat branch: HeightNear is
\* within 1.2 x HeightBase, HeightFar is beyond it
HeightBase == 100
HeightNear == 110
HeightFar == 130
MeasureHeights == {HeightBase, HeightNear, HeightFar}

\* the documents the widget may show when the iframe is found: the chat
\* views may be mounted inside a hidden ancestor
MeasureDocs ==
    { d \in [MarkerNames -> {Absent, Shown, Unrendered}] :
        d["call"] # Unrendered /\ d["profile"] # Unrendered }

\* an element with a layout box has a scrollHeight; one without reports 0
HasBox(doc, e) == e \in MarkerNames => doc[e].present /\ doc[e].rects > 0

MeasureInit ==
    /\ WaitInit /\ P2Init /\ LockInit /\ RulesInit /\ ResizeInit /\ SetupInit
    /\ EngineInit /\ FrameInit
    /\ markers \in MeasureDocs
    /\ modeResult = "not_called"
    /\ innerHeight = ViewportSmall
    /\ iframeHeight = MinHeight(ViewportSmall)
    /\ scrollY = 0
    /\ scrollH \in { f \in [HeightElems -> MeasureHeights \cup {0}] :
                       \A e \in HeightElems : (f[e] # 0) <=> HasBox(markers, e) }
    /\ ranResize = FALSE
    /\ steady = FALSE
    /\ ApiInit /\ EarlyInit /\ DetectInit /\ BlockerInit /\ QuietInit

\* onFound: enableIframeAutoResize runs resizeIframe() for the first time
MeasureInstall ==
    /\ wIframeInDom
    /\ Poll(0)
    /\ ranResize' = TRUE
    /\ steady' = TRUE

\* the interval callback: resizeIframe(), then the mode test
MeasureTick ==
    /\ IntervalTick
    /\ ranResize' = TRUE
    /\ steady' = TRUE

\* the frame of scheduleCheck: the mode test alone
MeasureCheckFrame ==
    /\ ModeCheckFrame
    /\ ranResize' = FALSE
    /\ UNCHANGED steady

\* content of an element with a layout box grows or shrinks
MeasureMutation(e, h) ==
    /\ HasBox(markers, e)
    /\ scrollH[e] # h
    /\ scrollH' = [scrollH EXCEPT ![e] = h]
    /\ checkScheduled' = (checkScheduled \/ autoResizeInstalled)
    /\ ranResize' = FALSE
    /\ steady' = (steady /\ h > scrollH[e])
    /\ UNCHANGED <<waitVars, markers, modeResult, innerHeight, iframeHeight,
                   autoResizeInstalled, lastMode, paintFrames, iframeBusy, stabLoops>>

\* the user resizes the host window
MeasureViewport(v) ==
    /\ ViewportChange(v)
    /\ ranResize' = FALSE
    /\ steady' = FALSE

(***************************************************************************)
(* Specifications                                                          *)
(***************************************************************************)
Init == WaitInit /\ ModeInit /\ GeomInit /\ P2Init /\ LockInit /\ RulesInit
          /\ ResizeInit /\ SetupInit
          /\ ranResize = FALSE /\ steady = FALSE /\ EngineInit /\ FrameInit
          /\ ApiInit /\ EarlyInit /\ DetectInit /\ BlockerInit /\ QuietInit

\* what each specification leaves as it is
WaitRest == UNCHANGED <<quietVars, installVars, detectVars, earlyVars, modeVars, geomVars, p2Vars, lockVars, ruleVars, resizeVars, setupVars, measureVars, engineVars, frameVars, apiVars>>
ModeRest == UNCHANGED <<quietVars, installVars, detectVars, earlyVars, waitVars, geomVars, p2Vars, lockVars, ruleVars, resizeVars, setupVars, measureVars, engineVars, frameVars, apiVars>>
ScrollRest == UNCHANGED <<quietVars, installVars, detectVars, earlyVars, waitVars, modeVars, lockVars, ruleVars, resizeVars, setupVars, measureVars, engineVars, frameVars, apiVars>>
ScrollEnv == UNCHANGED <<quietVars, installVars, detectVars, earlyVars, waitVars, p2Vars, lockVars, ruleVars, resizeVars, setupVars, measureVars, engineVars, frameVars, apiVars, innerHeight,
                         iframeHeight, scrollY>>

WaitNext ==
    \/ \E late \in {0, PollJitter} : WaitPoll(late) /\ WaitRest
    \/ IframeInjected /\ WaitRest
SpecWait == Init /\ [][WaitNext]_vars
\* setInterval keeps running its callback until the interval is cleared
WaitFairness == WF_vars(\E late \in {0, PollJitter} : WaitPoll(late) /\ WaitRest)
SpecWaitFair == SpecWait /\ WaitFairness

ModeNext ==
    \/ \E m \in MarkerNames, e \in ElemStates : MarkerChange(m, e) /\ ModeRest
    \/ DetectMode /\ ModeRest
SpecMode == Init /\ [][ModeNext]_vars

\* part_002 watches the conversation, profile and call markers
MarkersP2 == {"convo", "profile", "call"}
ScrollNext ==
    \/ EnableAutoResizeP2 /\ ScrollRest
    \/ IntervalTickP2 /\ ScrollRest
    \/ EntryTimeoutP2 /\ ScrollRest
    \/ ScrollEventP2 /\ ScrollRest
    \/ \E y \in 0..MaxUserScroll : UserScroll(y) /\ ScrollRest
    \/ \E m \in MarkersP2, h \in Heights :
          Mount(m, h) /\ ScrollEnv
    \/ \E m \in MarkersP2 :
          Unmount(m) /\ ScrollEnv
    \/ \E m \in MarkersP2, h \in Heights :
          ContentResize(m, h)
            /\ ScrollEnv
SpecScroll == Init /\ [][ScrollNext]_vars

\* the views the lock model mounts, with the scrollHeight each mounts at
MountsLock == {<<"convo", ContentSmall>>, <<"convo", ContentLarge>>,
               <<"talk", ContentSmall>>, <<"call", ContentSmall>>}
\* keydown events as <<key, shiftKey, isComposing>>
KeyEvents == {<<"Enter", FALSE, FALSE>>, <<"Enter", TRUE, FALSE>>,
              <<"Enter", FALSE, TRUE>>, <<"PageDown", FALSE, FALSE>>,
              <<"a", FALSE, FALSE>>}
LockSame == UNCHANGED <<quietVars, installVars, detectVars, earlyVars, ruleVars, resizeVars, setupVars, measureVars, engineVars, frameVars, waitVars, p2Vars, innerHeight, iframeHeight, scrollH, modeVars>>
LockEnvSame == UNCHANGED <<quietVars, installVars, detectVars, earlyVars, ruleVars, resizeVars, setupVars, measureVars, engineVars, frameVars, waitVars, p2Vars, innerHeight, iframeHeight>>
LockRest == LockSame /\ UNCHANGED apiVars
LockEnv == LockEnvSame /\ UNCHANGED apiVars
LockNext ==
    \/ \E k \in KeyEvents : KeyDown(k[1], k[2], k[3]) /\ LockRest
    \/ \E btn \in Buttons : Click(btn) /\ LockRest
    \/ Submit /\ LockRest
    \/ UserIntent /\ LockRest
    \/ MutationObserved /\ LockRest
    \/ GuardFrame /\ LockRest
    \/ IdleTimerFire /\ LockRest
    \/ \E d \in TimeSteps : Tick(d) /\ LockRest
    \/ \E y \in 0..MaxTop : ScrollOuter(y) /\ LockRest
    \/ \E y \in 0..MaxTop : ScrollInner("convo", y) /\ LockRest
    \/ \E mh \in MountsLock : LockMount(mh[1], mh[2]) /\ LockEnv
    \/ \E m \in {"convo", "talk", "call"} : LockUnmount(m) /\ LockEnv
SpecLock == Init /\ [][LockNext]_vars

\* discovery with the callback that waitForIframe is given at
\* DOMContentLoaded, the host window resized and the iframe injected with
\* a height of its own before it
FoundRest == UNCHANGED <<quietVars, installVars, detectVars, earlyVars, p2Vars, lockVars, ruleVars, setupVars, measureVars, engineVars, frameVars, apiVars, scrollY>>
FoundNext ==
    \/ \E late \in {0, PollJitter} : Poll(late) /\ FoundRest
    \/ \E h \in Heights :
          EmbedInjected(h) /\ FoundRest
            /\ UNCHANGED <<docVars, innerHeight, resizeVars>>
    \/ \E v \in Viewports : ViewportChange(v) /\ FoundRest
SpecFound == Init /\ [][FoundNext]_vars

\* What a call of getDelphiMode(doc) can reach: the document, and through
\* the closures of its callers the last observed mode, the lock and its
\* guard, and the iframe's style.
CallState ==
    [doc |-> markers, lm |-> lastMode, lock |-> lockActive, raf |-> guardRaf,
     h |-> iframeHeight, busy |-> iframeBusy]

\* the state a call leaves: isElementVisible, queryVisible and
\* getDelphiMode assign to nothing but their locals
GetDelphiModeRemembers(S) == [S EXCEPT !.lm = GetDelphiMode(S.doc)]
GetDelphiModeLeaves(S) == S

\* a caller evaluates getDelphiMode(doc), any number of times in a row
ModeCall ==
    LET S == GetDelphiModeLeaves(CallState)
    IN  /\ modeResult' = GetDelphiMode(markers)
        /\ markers' = S.doc
        /\ lastMode' = S.lm
        /\ lockActive' = S.lock
        /\ guardRaf' = S.raf
        /\ iframeHeight' = S.h
        /\ iframeBusy' = S.busy
        /\ lastEvent' = <<"getDelphiMode", "", FALSE, FALSE>>
        /\ UNCHANGED <<waitVars, innerHeight, scrollY, scrollH, p2Vars, ruleVars,
                       setupVars, measureVars, engineVars, frameVars, earlyVars,
                       detectVars, installVars, quietVars, autoResizeInstalled, checkScheduled, paintFrames, stabLoops,
                       blockerInstalled, lockBase, idleTimer, idleLeft, streamObserver,
                       guardFrames, idleTimeouts, observers,
                       intentAgo, scrollTop, sinceBump, intentSinceLock, guardDid,
                       innerScroll, outerAtBottom, trackerPending, apiLast,
                   styleListener, uncaught>>


(***************************************************************************)
(* Reaching the embedded document (delphi.js 1780-1901, 1923-1943)         *)
(***************************************************************************)
\* What the iframe shows when a callback runs: a same-origin document
\* ("ok"), a cross-origin one (contentDocument is null, contentWindow.document
\* throws a SecurityError), or a same-origin document without head or
\* without body.
Access == {"ok", "cross-origin", "no-head", "no-body"}
\* exceptions counted up to this many
MaxUncaught == 2

\* doInject(): the installs it reaches, and whether an exception leaves it
DoInject(a) ==
    IF a = "cross-origin" THEN [did |-> {}, threw |-> FALSE]
    ELSE IF a = "no-head" THEN [did |-> {"blocker"}, threw |-> FALSE]
    ELSE IF a = "no-body"
           THEN [did |-> {"blocker", "style", "rules-flag", "resize"}, threw |-> FALSE]
    ELSE [did |-> {"blocker", "style", "rules-flag", "rules", "resize"},
          threw |-> FALSE]

\* the load listener of the second DOMContentLoaded handler:
\* iframe.contentDocument || iframe.contentWindow.document, then
\* doc.head.appendChild(style), with no try around either
StyleOnLoad(a) ==
    IF a = "cross-origin" THEN [did |-> {}, threw |-> TRUE]
    ELSE IF a = "no-head" THEN [did |-> {}, threw |-> TRUE]
    ELSE [did |-> {"style-example"}, threw |-> FALSE]

\* the poll that finds the iframe: onFound injects and adds its load listener
ReachFound(a) ==
    /\ wIframeInDom
    /\ WaitPoll(0)
    /\ LET R == DoInject(a)
       IN  /\ dvDomRulesInstalled' = (dvDomRulesInstalled \/ "rules-flag" \in R.did)
           /\ autoResizeInstalled' = (autoResizeInstalled \/ "resize" \in R.did)
           /\ uncaught' = uncaught + B2N(R.threw)
           /\ lastEvent' = <<"found", a, R.did # {}, R.threw>>
    /\ loadListeners' = loadListeners + 1
    /\ UNCHANGED styleListener

\* the iframe's load event: its listeners run in the order they were added,
\* an exception in one does not stop the next
ReachLoad(a) ==
    /\ wIframeInDom
    /\ styleListener \/ loadListeners > 0
    /\ uncaught < MaxUncaught
    /\ LET S == IF styleListener THEN StyleOnLoad(a) ELSE [did |-> {}, threw |-> FALSE]
           R == IF loadListeners > 0 THEN DoInject(a) ELSE [did |-> {}, threw |-> FALSE]
       IN  /\ dvDomRulesInstalled' = (dvDomRulesInstalled \/ "rules-flag" \in R.did)
           /\ autoResizeInstalled' = (autoResizeInstalled \/ "resize" \in R.did)
           /\ uncaught' = uncaught + B2N(S.threw) + B2N(R.threw)
           /\ lastEvent' = <<"load", a, (S.did \cup R.did) # {}, S.threw \/ R.threw>>
    /\ UNCHANGED <<waitVars, loadListeners, styleListener>>

\* the interval callback of enableIframeAutoResize: it works on the
\* document it was installed for and reaches for no other
ReachInterval ==
    /\ autoResizeInstalled
    /\ lastEvent' = <<"interval", "", TRUE, FALSE>>
    /\ UNCHANGED <<waitVars, loadListeners, styleListener, uncaught,
                   dvDomRulesInstalled, autoResizeInstalled>>

\* the lock's handlers with the event each step dispatches on record
Dispatched(type, what, shiftKey, isComposing) ==
    /\ lastEvent' = <<type, what, shiftKey, isComposing>>
    /\ UNCHANGED <<innerScroll, outerAtBottom, trackerPending, apiLast,
                   styleListener, uncaught>>
    /\ LockSame
EntryMounts == {<<"convo", ContentSmall>>, <<"call", ContentSmall>>}
EntryNext ==
    \/ \E k \in KeyEvents : KeyDown(k[1], k[2], k[3])
                              /\ Dispatched("keydown", k[1], k[2], k[3])
    \/ \E btn \in Buttons : Click(btn) /\ Dispatched("click", btn, FALSE, FALSE)
    \/ Submit /\ Dispatched("submit", "", FALSE, FALSE)
    \/ UserIntent /\ Dispatched("wheel", "", FALSE, FALSE)
    \/ MutationObserved /\ Dispatched("mutation", "", FALSE, FALSE)
    \/ GuardFrame /\ Dispatched("frame", "", FALSE, FALSE)
    \/ IdleTimerFire /\ Dispatched("timeout", "", FALSE, FALSE)
    \/ Tick(STREAM_IDLE_MS) /\ Dispatched("none", "", FALSE, FALSE)
    \/ \E y \in 0..MaxTop : ScrollOuter(y) /\ Dispatched("scroll", "", FALSE, FALSE)
    \/ \E y \in 0..MaxTop : ScrollInner("convo", y)
                              /\ Dispatched("scroll", "convo", FALSE, FALSE)
    \/ \E mh \in EntryMounts : LockMount(mh[1], mh[2]) /\ lastEvent' = NoEvent
          /\ UNCHANGED <<innerScroll, outerAtBottom, trackerPending, apiLast,
                   styleListener, uncaught>>
          /\ LockEnvSame
    \/ \E m \in {"convo", "call"} : LockUnmount(m) /\ lastEvent' = NoEvent
          /\ UNCHANGED <<innerScroll, outerAtBottom, trackerPending, apiLast,
                   styleListener, uncaught>>
          /\ LockEnvSame
SpecEntry == Init /\ [][EntryNext]_vars

\* discovery, load events and the interval with the embedded document in
\* every state of reach; the iframe is in the host document from the start
\* or is injected later
ReachInit ==
    /\ wElapsed = 0 /\ wTimer = "running" /\ wIframeInDom \in BOOLEAN
    /\ wFound = 0 /\ wFoundAt = -1 /\ wErrors = 0 /\ wSawHeight = -1
    /\ ModeInit /\ GeomInit /\ P2Init /\ LockInit /\ RulesInit /\ ResizeInit
    /\ SetupInit /\ ranResize = FALSE /\ steady = FALSE /\ EngineInit /\ FrameInit
    /\ ApiInit /\ EarlyInit /\ DetectInit /\ BlockerInit /\ QuietInit
ReachRest ==
    UNCHANGED <<quietVars, installVars, detectVars, earlyVars, modeVars, geomVars, p2Vars, lockVars, ruleVars, measureVars,
                engineVars, frameVars, innerScroll, outerAtBottom, trackerPending,
                apiLast, lastMode, checkScheduled, paintFrames, iframeBusy,
                stabLoops, docGen, winGen, loadPending, resizeDoc, resizeIntervals,
                docs, wins>>
ReachNext ==
    \/ IframeInjected
          /\ UNCHANGED <<lastEvent, styleListener, uncaught, loadListeners,
                         dvDomRulesInstalled, autoResizeInstalled>>
          /\ ReachRest
    \/ \E late \in {0, PollJitter} :
          /\ ~wIframeInDom
          /\ WaitPoll(late)
          /\ UNCHANGED <<lastEvent, styleListener, uncaught, loadListeners,
                         dvDomRulesInstalled, autoResizeInstalled>>
          /\ ReachRest
    \/ \E a \in Access : ReachFound(a) /\ ReachRest
    \/ \E a \in Access : ReachLoad(a) /\ ReachRest
    \/ ReachInterval /\ ReachRest
SpecReach == ReachInit /\ [][ReachNext]_vars

\* calls of the detector between changes of the document, the lock being
\* started by submits and released by its idle timeout
CallsNext ==
    \/ ModeCall
    \/ \E m \in MarkerNames, e \in ElemStates :
          /\ MarkerChange(m, e)
          /\ lastEvent' = NoEvent
          /\ UNCHANGED <<waitVars, geomVars, p2Vars, lockVars, ruleVars, resizeVars,
                         setupVars, measureVars, engineVars, frameVars, earlyVars, detectVars,
                         installVars, quietVars, innerScroll, outerAtBottom, trackerPending, apiLast,
                   styleListener, uncaught>>
    \/ Submit /\ Dispatched("submit", "", FALSE, FALSE)
    \/ Tick(STREAM_IDLE_MS) /\ Dispatched("none", "", FALSE, FALSE)
    \/ IdleTimerFire /\ Dispatched("timeout", "", FALSE, FALSE)
SpecCalls == Init /\ [][CallsNext]_vars

\* the lock with the widget's calls of the patched scroll APIs and the
\* host page's scroll tracker
ApiRest == LockSame /\ NoApiCall
ApiEnv == LockEnvSame /\ NoApiCall
ApiCalls == ({"scrollTo"} \X {"window"} \X {0, MaxTop})
              \cup ({"scrollBy"} \X {"window"} \X {-1, 1})
              \cup ({"scrollIntoView"} \X {"convo", "talk"} \X {0})
ApiKeyEvents == {<<"Enter", FALSE, FALSE>>, <<"Enter", TRUE, FALSE>>,
                 <<"Enter", FALSE, TRUE>>}
ApiMounts == {<<"convo", ContentSmall>>, <<"talk", ContentSmall>>,
              <<"call", ContentSmall>>}
ApiNext ==
    \/ \E c \in ApiCalls : ScrollApiCall(c[1], c[2], c[3]) /\ LockSame
    \/ TrackerScroll /\ LockSame
    \/ \E k \in ApiKeyEvents : KeyDown(k[1], k[2], k[3]) /\ ApiRest
    \/ \E btn \in Buttons : Click(btn) /\ ApiRest
    \/ Submit /\ ApiRest
    \/ MutationObserved /\ ApiRest
    \/ GuardFrame /\ ApiRest
    \/ IdleTimerFire /\ ApiRest
    \/ Tick(STREAM_IDLE_MS) /\ ApiRest
    \/ \E y \in 0..OuterExtent : ScrollOuter(y) /\ ApiRest
    \/ \E mh \in ApiMounts : LockMount(mh[1], mh[2]) /\ ApiEnv
    \/ \E m \in {"convo", "talk", "call"} : LockUnmount(m) /\ ApiEnv
SpecApi == Init /\ [][ApiNext]_vars

\* the lock's callbacks and the uninstall function, in every order: send
\* signals in and out of chat mode, mutations, frames, the idle timeout
ResNext ==
    \/ \E k \in ApiKeyEvents : KeyDown(k[1], k[2], k[3]) /\ LockRest
    \/ \E btn \in Buttons : Click(btn) /\ LockRest
    \/ Submit /\ LockRest
    \/ UserIntent /\ LockRest
    \/ MutationObserved /\ LockRest
    \/ GuardFrame /\ LockRest
    \/ IdleTimerFire /\ LockRest
    \/ \E d \in TimeSteps : Tick(d) /\ LockRest
    \/ UninstallBlocker /\ LockRest
    \/ \E mh \in ApiMounts : LockMount(mh[1], mh[2]) /\ LockEnv
    \/ \E m \in {"convo", "talk", "call"} : LockUnmount(m) /\ LockEnv
SpecRes == Init /\ [][ResNext]_vars

\* the lock at work, and calls of installIframeAutoScrollBlocker and of the
\* uninstall functions it returned
MaxInstallCalls == 3
RoundRest == UNCHANGED <<quietVars, detectVars, earlyVars, ruleVars, resizeVars, setupVars, measureVars, engineVars, frameVars, waitVars, p2Vars, apiVars, modeVars, innerHeight, iframeHeight, scrollH>>
RoundNext ==
    \/ \E k \in ApiKeyEvents : KeyDown(k[1], k[2], k[3]) /\ LockRest
    \/ Submit /\ LockRest
    \/ UserIntent /\ LockRest
    \/ MutationObserved /\ LockRest
    \/ GuardFrame /\ LockRest
    \/ IdleTimerFire /\ LockRest
    \/ \E d \in TimeSteps : Tick(d) /\ LockRest
    \/ \E mh \in ApiMounts : LockMount(mh[1], mh[2]) /\ LockEnv
    \/ installCalls < MaxInstallCalls /\ InstallBlockerCall /\ RoundRest
    \/ \E f \in 1..MaxInstallCalls : UninstallCall(f) /\ RoundRest
SpecRound == Init /\ [][RoundNext]_vars

\* the rule engine on the document of the rules, the widget changing the
\* document at most MaxWidgetSteps times
MaxWidgetSteps == 3
QuietRest ==
    /\ UNCHANGED <<eRules, eQueued, eEnforced, eChanged, eOwed, lastPass, eTicked>>
    /\ UNCHANGED <<installVars, detectVars, earlyVars, waitVars, modeVars, geomVars, p2Vars, lockVars, resizeVars, setupVars, measureVars, frameVars, apiVars>>
QuietWidget == widgetSteps < MaxWidgetSteps /\ QuietWidgetStep /\ QuietRest
QuietNext ==
    \/ QuietInstall /\ QuietRest
    \/ QuietPass /\ QuietRest
    \/ \E el \in WidgetElems : WidgetInsert(el) /\ QuietWidget
    \/ WidgetRemount /\ QuietWidget
    \/ \E i \in 1..MaxElems : WidgetRerender(i) /\ QuietWidget
    \/ \E i \in 1..MaxElems : WidgetUnmount(i) /\ QuietWidget
SpecQuiet == Init /\ [][QuietNext]_vars
\* a requested animation frame callback runs
QuietFairness == WF_vars(QuietPass /\ QuietRest)
SpecQuietFair == SpecQuiet /\ QuietFairness

RulesRest == UNCHANGED <<quietVars, installVars, detectVars, earlyVars, waitVars, modeVars, geomVars, p2Vars, lockVars, resizeVars, setupVars, measureVars, engineVars, frameVars, apiVars>>
RulesNext ==
    \/ \E rule \in Rules : ApplyRule(rule) /\ RulesRest
    \/ \E el \in WidgetElems : WidgetInsert(el) /\ RulesRest
    \/ WidgetRemount /\ RulesRest
    \/ \E i \in 1..MaxElems : WidgetRerender(i) /\ RulesRest
    \/ \E i \in 1..MaxElems : WidgetUnmount(i) /\ RulesRest
SpecRules == Init /\ [][RulesNext]_vars

\* delphi-styling.js alone: the document element's content changes, the
\* user resizes the window, the host page may bind a global named height;
\* up to MaxEarlyRuns runs of resizeIframe() write the height
MaxEarlyRuns == 3
EarlyRoom == earlyWrites < MaxEarlyRuns /\ earlyTimeouts < MaxEarlyRuns
EarlyRest == UNCHANGED <<quietVars, installVars, detectVars, waitVars, modeVars, p2Vars, lockVars, ruleVars, resizeVars, setupVars, measureVars, engineVars, frameVars, apiVars>>
EarlyNext ==
    \/ \E docOk \in BOOLEAN : EarlyRoom /\ EarlyLoad(docOk) /\ EarlyRest
    \/ \E docOk \in BOOLEAN : EarlyRoom /\ EarlyTimeout(docOk) /\ EarlyRest
    \/ \E docOk \in BOOLEAN : EarlyRoom /\ EarlyIntervalTick(docOk) /\ EarlyRest
    \/ \E v \in Viewports, docOk \in BOOLEAN :
          EarlyRoom /\ EarlyWindowResize(v, docOk) /\ EarlyRest
    \/ HostBindsHeight /\ EarlyRest
    \/ \E h \in Heights :
          ContentResize("docEl", h) /\ EarlyRest
            /\ UNCHANGED <<earlyVars, innerHeight, iframeHeight, scrollY>>
SpecEarly == Init /\ [][EarlyNext]_vars

\* the final revision: the iframe is injected before the first poll
FinalRest == UNCHANGED <<quietVars, installVars, detectVars, earlyVars, p2Vars, lockVars, ruleVars, setupVars, measureVars, engineVars, frameVars, apiVars, scrollY>>
Next ==
    \/ IframeInjected /\ UNCHANGED <<docVars, innerHeight, iframeHeight, resizeVars>> /\ FinalRest
    \/ Poll(0) /\ wIframeInDom /\ FinalRest
    \/ LoopRoom /\ IntervalTick /\ FinalRest
    \/ ModeMutation /\ FinalRest
    \/ LoopRoom /\ ModeCheckFrame /\ FinalRest
    \/ PaintOuterFrame /\ FinalRest
    \/ PaintInnerFrame /\ FinalRest
    \/ \E l \in stabLoops : StabTick(l) /\ FinalRest
    \/ \E l \in stabLoops : StabReveal(l) /\ FinalRest
    \/ \E d \in StabSteps : StabAdvance(d) /\ FinalRest
    \/ \E v \in Viewports : ViewportChange(v) /\ FinalRest
    \/ \E mh \in MountsFinal : ObservedMount(mh[1], mh[2]) /\ FinalRest
    \/ \E m \in MarkersFinal : ObservedUnmount(m) /\ FinalRest
    \/ \E e \in GrowingFinal, h \in Heights :
          ContentResize(e, h) /\ UNCHANGED <<waitVars, innerHeight, iframeHeight, resizeVars>>
                              /\ FinalRest
Spec == Init /\ [][Next]_vars

\* the final revision with the detector of each step and its
\* handleModeChange calls on record
HandleSame == UNCHANGED <<quietVars, installVars, earlyVars, p2Vars, lockVars, ruleVars, setupVars, measureVars, engineVars, frameVars, scrollY>>
Detectors == {"found", "interval", "check"}
HandleRan(type, calls) ==
    /\ lastEvent' = <<type, "", FALSE, FALSE>>
    /\ handled' = calls
    /\ detected' = IF type \in Detectors THEN GetDelphiMode(markers) ELSE detected
    /\ UNCHANGED <<innerScroll, outerAtBottom, trackerPending, apiLast,
                   styleListener, uncaught>>
    /\ HandleSame
HandleNext ==
    \/ IframeInjected /\ UNCHANGED <<docVars, innerHeight, iframeHeight, resizeVars>>
                      /\ HandleRan("none", <<>>)
    \/ Poll(0) /\ wIframeInDom /\ HandleRan("found", <<>>)
    \/ LoopRoom /\ IntervalTick
                /\ HandleRan("interval", DetectChange(ResizeIframe(ResizeState)).calls)
    \/ ModeMutation /\ HandleRan("none", <<>>)
    \/ LoopRoom /\ ModeCheckFrame /\ HandleRan("check", DetectChange(ResizeState).calls)
    \/ PaintOuterFrame /\ HandleRan("none", <<>>)
    \/ PaintInnerFrame /\ HandleRan("none", <<>>)
    \/ \E l \in stabLoops : StabTick(l) /\ HandleRan("none", <<>>)
    \/ \E l \in stabLoops : StabReveal(l) /\ HandleRan("none", <<>>)
    \/ \E d \in StabSteps : StabAdvance(d) /\ HandleRan("none", <<>>)
    \/ \E mh \in MountsFinal : ObservedMount(mh[1], mh[2]) /\ HandleRan("none", <<>>)
    \/ \E m \in MarkersFinal : ObservedUnmount(m) /\ HandleRan("none", <<>>)
SpecHandle == Init /\ [][HandleNext]_vars

\* stabilization loops alone: one viewport, the call and the profile view,
\* up to MaxStabLoops loops in flight
MaxStabLoops == 2
MountsStab == {<<"call", ContentSmall>>, <<"profile", ContentSmall>>}
StabRoom == RoomFor(MaxStabLoops)
StabNext ==
    \/ IframeInjected /\ UNCHANGED <<docVars, innerHeight, iframeHeight, resizeVars>> /\ FinalRest
    \/ Poll(0) /\ wIframeInDom /\ FinalRest
    \/ StabRoom /\ IntervalTick /\ FinalRest
    \/ StabRoom /\ ModeCheckFrame /\ FinalRest
    \/ \E l \in stabLoops : StabTick(l) /\ FinalRest
    \/ \E l \in stabLoops : StabReveal(l) /\ FinalRest
    \/ \E d \in StabSteps : StabAdvance(d) /\ FinalRest
    \/ \E mh \in MountsStab : ObservedMount(mh[1], mh[2]) /\ FinalRest
    \/ \E m \in {"call", "profile"} : ObservedUnmount(m) /\ FinalRest
    \/ \E h \in Heights :
          ContentResize("call", h) /\ UNCHANGED <<waitVars, innerHeight, iframeHeight, resizeVars>>
                                   /\ FinalRest
SpecStab == Init /\ [][StabNext]_vars

\* the same with the callback of each step on record: a tick as
\* <<"tick", the loop's target mode>>
FinalSame == UNCHANGED <<quietVars, installVars, detectVars, earlyVars, p2Vars, lockVars, ruleVars, setupVars, measureVars, engineVars, frameVars, scrollY>>
Ran(type, what) ==
    /\ lastEvent' = <<type, what, FALSE, FALSE>>
    /\ UNCHANGED <<innerScroll, outerAtBottom, trackerPending, apiLast,
                   styleListener, uncaught>>
    /\ FinalSame
AbortNext ==
    \/ IframeInjected /\ UNCHANGED <<docVars, innerHeight, iframeHeight, resizeVars>>
                      /\ Ran("none", "")
    \/ Poll(0) /\ wIframeInDom /\ Ran("found", "")
    \/ StabRoom /\ IntervalTick /\ Ran("interval", "")
    \/ StabRoom /\ ModeCheckFrame /\ Ran("check", "")
    \/ \E l \in stabLoops : StabTick(l) /\ Ran("tick", l.target)
    \/ \E l \in stabLoops : StabReveal(l) /\ Ran("reveal", l.target)
    \/ \E d \in StabSteps : StabAdvance(d) /\ Ran("none", "")
    \/ \E mh \in MountsStab : ObservedMount(mh[1], mh[2]) /\ Ran("none", "")
    \/ \E m \in {"call", "profile"} : ObservedUnmount(m) /\ Ran("none", "")
    \/ \E h \in Heights :
          ContentResize("call", h) /\ UNCHANGED <<waitVars, innerHeight, iframeHeight, resizeVars>>
                                   /\ Ran("none", "")
SpecAbort == Init /\ [][AbortNext]_vars

\* the loops SpecStab can have in flight
StabLoopRecords ==
    [target : {"call_mode", "overview_mode"},
     minHeight : {MinHeight(ViewportSmall)},
     lastMeasured : {-1} \cup {Max(h, MinHeight(ViewportSmall)) : h \in Heights},
     stableFrames : 0..MODE_ENTRY_STABLE_FRAMES,
     elapsed : {0} \cup StabSteps,
     reveal : BOOLEAN]

\* animation frames keep coming and time keeps advancing: every callback
\* pending in requestAnimationFrame runs, performance.now() grows
StabFairness ==
    /\ \A l \in StabLoopRecords : WF_vars(StabTick(l) /\ FinalRest)
    /\ \A l \in StabLoopRecords : WF_vars(StabReveal(l) /\ FinalRest)
    /\ WF_vars(\E d \in StabSteps : StabAdvance(d) /\ FinalRest)
SpecStabFair == SpecStab /\ StabFairness

\* the rule engine and the mode check, frame by frame; the widget mounts
\* and unmounts the call view
EngineRest == UNCHANGED <<quietVars, installVars, detectVars, earlyVars, p2Vars, lockVars, ruleVars, setupVars, measureVars, apiVars, scrollY>>
EngineNext ==
    \/ IframeInjected /\ UNCHANGED <<docVars, innerHeight, iframeHeight, resizeVars,
                                     engineVars, frameVars, apiVars>>
                      /\ EngineRest
    \/ EngineInstall({}) /\ EngineRest
    \/ \E i \in 1..MaxEngineRules, kind \in MutationKinds :
          WidgetChange(EngineRuleNames[i], kind) /\ EngineRest
    \/ EngineMount("call", ContentSmall) /\ EngineRest
    \/ EngineUnmount("call") /\ EngineRest
    \/ LoopRoom /\ EngineIntervalTick /\ EngineRest
    \/ BeginFrame /\ EngineRest
    \/ FrameRules({}) /\ EngineRest
    \/ LoopRoom /\ FrameCheck /\ EngineRest
    \/ \E l \in frameLoops : FrameStabTick(l) /\ EngineRest
    \/ \E l \in frameLoops : FrameStabReveal(l) /\ EngineRest
    \/ EndFrame /\ EngineRest
SpecEngine == Init /\ [][EngineNext]_vars

\* the passes of the rule engine alone, with rules that throw
PassNext ==
    \/ IframeInjected /\ UNCHANGED <<docVars, innerHeight, iframeHeight, resizeVars,
                                     engineVars, frameVars, apiVars>>
                      /\ EngineRest
    \/ \E throwing \in SUBSET SeqRange(EngineRuleNames) : EngineInstall(throwing) /\ EngineRest
    \/ \E i \in 1..MaxEngineRules, kind \in MutationKinds :
          WidgetChange(EngineRuleNames[i], kind) /\ EngineRest
    \/ BeginFrame /\ EngineRest
    \/ \E throwing \in SUBSET SeqRange(EngineRuleNames) : FrameRules(throwing) /\ EngineRest
    \/ FrameCheck /\ EngineRest
    \/ EndFrame /\ EngineRest
SpecPass == Init /\ [][PassNext]_vars

\* discovery, reloads and load events
SetupRest == UNCHANGED <<quietVars, installVars, detectVars, earlyVars, p2Vars, lockVars, ruleVars, measureVars, engineVars, frameVars, apiVars, scrollY>>
SetupNext ==
    \/ IframeInjected /\ UNCHANGED <<docVars, innerHeight, iframeHeight, resizeVars, setupVars>>
                      /\ SetupRest
    \/ \E late \in {0, PollJitter} :
          ~wIframeInDom /\ Poll(late) /\ UNCHANGED setupVars /\ SetupRest
    \/ \E stillLoading \in BOOLEAN : FoundSetup(stillLoading) /\ SetupRest
    \/ \E newWindow \in BOOLEAN : Reload(newWindow) /\ SetupRest
    \/ LoadEvent /\ SetupRest
SpecSetup == Init /\ [][SetupNext]_vars

\* discovery and load events of one document, which at discovery may
\* still be without its body element
InstallNext ==
    \/ IframeInjected /\ UNCHANGED <<docVars, innerHeight, iframeHeight, resizeVars, setupVars>>
                      /\ SetupRest
    \/ \E late \in {0, PollJitter} :
          ~wIframeInDom /\ Poll(late) /\ UNCHANGED setupVars /\ SetupRest
    \/ \E stillLoading, hasBody \in BOOLEAN :
          (~hasBody => stillLoading) /\ FoundSetupAt(stillLoading, hasBody) /\ SetupRest
    \/ LoadEvent /\ SetupRest
SpecInstall == Init /\ [][InstallNext]_vars

\* recomputations of the height of one document
MeasureRest == UNCHANGED <<quietVars, installVars, detectVars, earlyVars, p2Vars, lockVars, ruleVars, setupVars, engineVars, frameVars, apiVars, scrollY>>
MeasureNext ==
    \/ IframeInjected /\ UNCHANGED <<docVars, innerHeight, iframeHeight, resizeVars,
                                     measureVars, engineVars, frameVars, apiVars>>
                      /\ MeasureRest
    \/ MeasureInstall /\ MeasureRest
    \/ MeasureTick /\ MeasureRest
    \/ MeasureCheckFrame /\ MeasureRest
    \/ \E e \in HeightElems, h \in MeasureHeights : MeasureMutation(e, h) /\ MeasureRest
    \/ \E v \in Viewports : MeasureViewport(v) /\ MeasureRest
SpecMeasure == MeasureInit /\ [][MeasureNext]_vars

(***************************************************************************)
(* Claims                                                                  *)
(***************************************************************************)
\* C1 (as claimed): in every state after the iframe is discovered the
\* height applied to the iframe is at least floor(viewport height x 0.87)
C1_HeightAtLeastFloor ==
    wFound > 0 => iframeHeight >= MinHeight(innerHeight)

\* an element that is in the DOM and visually rendered
Rendered(e) ==
    e \in {x \in ElemStates : x.present /\ x.display = "block"
                               /\ x.visibility = "visible" /\ x.rects = 1}

\* C2: getDelphiMode returns exactly one of the four modes; it is call iff
\* the call marker is rendered, else chat iff a chat marker (conversation or
\* Talk) is rendered, else overview iff the profile marker is rendered, else
\* unknown; and markers that are present but not rendered never matter: the
\* result is the one for the document with those markers taken out.
C2_ModePriority ==
    modeResult # "not_called" =>
      LET call == Rendered(markers["call"])
          chat == Rendered(markers["convo"]) \/ Rendered(markers["talk"])
          prof == Rendered(markers["profile"])
          stripped == [m \in MarkerNames |->
                         IF Rendered(markers[m]) THEN Shown ELSE Absent]
      IN  /\ modeResult \in {"call_mode", "chat_mode", "overview_mode", "unknown_mode"}
          /\ (modeResult = "call_mode") <=> call
          /\ (modeResult = "chat_mode") <=> (~call /\ chat)
          /\ (modeResult = "overview_mode") <=> (~call /\ ~chat /\ prof)
          /\ (modeResult = "unknown_mode") <=> (~call /\ ~chat /\ ~prof)
          /\ modeResult = GetDelphiMode(stripped)

\* C2 witness: all markers are in the DOM, call and profile are mounted but
\* hidden, and the detector answered chat
C2_Witness ==
    /\ modeResult = "chat_mode"
    /\ \A m \in MarkerNames : markers[m].present
    /\ ~Rendered(markers["call"])
    /\ ~Rendered(markers["profile"])

\* C3 (as claimed): in every chat-mode entry the reconciler calls
\* window.scrollTo at most once, and never once userHasScrolled is set
C3_ScrollAtMostOncePerEntry ==
    entryFrom # "none" => (entryScrolls <= 1 /\ ~scrollAfterFlag)

\* C4 (as claimed): after a detected overview -> chat transition whose 150ms
\* correction has run, with no user scroll and the iframe bottom below the
\* viewport bottom, exactly one scrollTo was performed for the transition
C4_OneScrollOnOverviewToChat ==
    ( /\ entryFrom = "overview_mode"
      /\ entryDone
      /\ ~entryUserScroll
      /\ (IframeTop + iframeHeight) - innerHeight > 0 )
    => entryScrolls = 1

Reverts == {"revert-outer", "revert-scroller"}

\* C5: a step that activates the lock captures the current outer-page
\* position and the internal scroller's position; and at a guard frame with
\* the lock active and no user scroll-input signal within the grace window, a
\* position more than 1px below its captured value is put back to exactly
\* that value, which stays the baseline (the internal scroller: while the
\* node the lock follows is still in the document).
C5_LockRevertsDownward ==
    [][ /\ (~lockActive /\ lockActive') =>
            /\ lockedOuterTop' = scrollY /\ scrollY' = scrollY
            /\ lockedScroller' # "null" =>
                 /\ lockedScrollerTop' = scrollTop[lockedScroller']
                 /\ scrollTop' = scrollTop
        /\ (GuardFrame /\ lockActive /\ ~RecentlyUserIntent) =>
            /\ scrollY > lockedOuterTop + 1 =>
                 (scrollY' = lockedOuterTop /\ lockedOuterTop' = lockedOuterTop)
            /\ ( /\ lockedScroller # "null"
                 /\ ~lockedScrollerDetached
                 /\ scrollTop[lockedScroller] > lockedScrollerTop + 1 ) =>
                 /\ scrollTop'[lockedScroller] = lockedScrollerTop
                 /\ lockedScrollerTop' = lockedScrollerTop
      ]_vars

\* C5 witness: one guard frame in chat mode has just put back both the outer
\* page and the internal scroller
C5_Witness ==
    /\ lockActive
    /\ guardDid = Reverts
    /\ scrollY = lockedOuterTop
    /\ scrollTop[lockedScroller] = lockedScrollerTop

\* C6 (as claimed): once a user scroll-input signal has arrived during the
\* lock, no later guard frame of that lock reverts a position
C6_NoRevertAfterUserSignal ==
    (lockActive /\ intentSinceLock) => guardDid \cap Reverts = {}

\* C6 (amended): a guard frame that runs within USER_INTENT_GRACE_MS of the
\* latest user scroll-input signal reverts nothing and takes the positions it
\* observes as the new baselines
C6_NoRevertWithinGrace ==
    /\ []((lockActive /\ RecentlyUserIntent) => guardDid \cap Reverts = {})
    /\ [][ (GuardFrame /\ lockActive /\ RecentlyUserIntent) =>
             /\ scrollY' = scrollY
             /\ scrollTop' = scrollTop
             /\ lockedOuterTop' = scrollY
             /\ lockedScroller' # "null" =>
                  lockedScrollerTop' = scrollTop[lockedScroller']
         ]_vars

\* C6 witness: within the grace window a guard frame has just adopted
\* downward moves of the outer page and of the internal scroller
C6_Witness ==
    /\ lockActive
    /\ intentSinceLock
    /\ RecentlyUserIntent
    /\ guardDid = {"adopt-outer", "adopt-scroller"}

\* C7: while the lock is active the idle timeout is set and is due exactly
\* STREAM_IDLE_MS after the latest send signal or observed mutation, so every
\* observed mutation restarts the idle period; and the lock is inactive only
\* when STREAM_IDLE_MS have passed since the latest of them
C7_IdleRelease ==
    /\ lockActive => (idleTimer = 1 /\ idleLeft = STREAM_IDLE_MS - sinceBump)
    /\ ~lockActive => (idleTimer = 0 /\ sinceBump = STREAM_IDLE_MS)

\* C7 witness: a lock that followed an internal scroller was released by the
\* idle timeout
C7_Witness ==
    /\ ~lockActive
    /\ lockedScroller # "null"
    /\ sinceBump = STREAM_IDLE_MS
    /\ streamObserver = "null"

\* C8 (as claimed): after the detected mode has left chat the lock is
\* released, so no guard frame reverts a scroll position while the mode is
\* not chat
C8_ReleasedOnLeavingChat ==
    "not-chat" \notin guardDid

C10_NoCallbackAfterWindow ==
    wFound > 0 => wFoundAt <= MAX_TIME

\* C10 (amended): polling ends at the first poll that runs more than 15000ms
\* after the start; if no poll up to and including that one found the
\* element, exactly one error is logged, the interval is cleared and the
\* callback is never invoked afterwards; an error is logged in no other case
C10_TimeoutStopsPolling ==
    /\ wErrors <= 1
    /\ wErrors = 1 => (wTimer = "cleared" /\ wFound = 0 /\ wElapsed > MAX_TIME)
    /\ (wTimer = "cleared" /\ wFound = 0) => wErrors = 1
    /\ wElapsed > MAX_TIME => wTimer = "cleared"
    /\ wFound <= 1

\* C10 witness: the timeout was reported, the element appeared afterwards and
\* the callback was not invoked
C10_Witness ==
    /\ wErrors = 1
    /\ wIframeInDom
    /\ wFound = 0


\* C11: once the iframe has reloaded and its load event has been handled,
\* the document it shows now has every DOM rule registered under one
\* rule-engine observer, and the resize closure measures and detects the
\* mode on that document.
C11_ReloadRecreatesState ==
    (wFound > 0 /\ ~loadPending)
        => /\ docs[docGen].rules = RuleNames
           /\ docs[docGen].ruleObservers = 1
           /\ resizeDoc = docGen

\* C17: however often injectOverridesIntoIframe runs, the iframe has at most
\* one resize interval, and each document at most one mode observer, one
\* rule-engine observer with no rule name twice, one set of scroll-blocker
\* listeners and one style element; each window is patched at most once.
C17_SetupIdempotent ==
    /\ resizeIntervals <= 1
    /\ \A g \in Gens :
         /\ docs[g].modeObservers <= 1
         /\ docs[g].ruleObservers <= 1
         /\ Cardinality(SeqRange(docs[g].rules)) = Len(docs[g].rules)
         /\ docs[g].listeners <= 1
         /\ docs[g].styles <= 1
         /\ wins[g].patches <= 1

\* injectOverridesIntoIframe has run twice on one document, which has one
\* of each
C17_Witness ==
    \E g \in Gens :
        /\ docs[g].injects >= 2
        /\ docs[g].modeObservers = 1
        /\ docs[g].ruleObservers = 1
        /\ docs[g].rules = RuleNames
        /\ docs[g].listeners = 1
        /\ docs[g].styles = 1
        /\ resizeIntervals = 1


\* C12: when resizeIframe() runs again with the viewport as it was and no
\* measured height gone down since its run before (the mode is the same:
\* no view was mounted, unmounted, shown or hidden), the height it applies
\* is not below the height applied before.
C12_HeightMonotone ==
    [][(steady /\ ranResize') => iframeHeight' >= iframeHeight]_vars

\* C13: right after a run of resizeIframe() the iframe's height is the
\* larger of the scrollHeight of the root chosen for the detected mode and
\* the floor.
C13_HeightIsRootOrFloor ==
    ranResize =>
        iframeHeight = Max(scrollH[GetActiveHeightRoot(markers, GetDelphiMode(markers))],
                           MinHeight(innerHeight))

\* the content height of chat mode: the largest scrollHeight of the
\* conversation, the Talk container and the root, and the whole document's
\* when that is at most 1.2 times as large or when the largest is 0
C13_ChatContent ==
    LET convoH == IF markers["convo"].present THEN scrollH["convo"] ELSE 0
        talkH == IF markers["talk"].present THEN scrollH["talk"] ELSE 0
        rootH == scrollH[GetActiveHeightRoot(markers, "chat_mode")]
        chatH == Max(Max(convoH, talkH), rootH)
        docH == scrollH["docEl"]
    IN  IF chatH = 0 \/ 5 * docH <= 6 * chatH THEN Max(chatH, docH) ELSE chatH
\* C13, with the content height of chat mode: right after a run of
\* resizeIframe() the iframe's height is the larger of the content height
\* and the floor, the content height being the root's scrollHeight outside
\* chat mode.
C13_HeightIsContentOrFloor ==
    ranResize =>
        iframeHeight =
            Max(IF GetDelphiMode(markers) = "chat_mode" THEN C13_ChatContent
                ELSE scrollH[GetActiveHeightRoot(markers, GetDelphiMode(markers))],
                MinHeight(innerHeight))

\* a run in chat mode applied the whole document's height, which is above
\* the floor and above the chat root's
C13_Witness ==
    /\ ranResize
    /\ GetDelphiMode(markers) = "chat_mode"
    /\ iframeHeight = scrollH["docEl"]
    /\ iframeHeight > MinHeight(innerHeight)
    /\ iframeHeight > scrollH[GetActiveHeightRoot(markers, "chat_mode")]


\* C14: a callback that reveals the iframe leaves no stabilization loop
\* that is still measuring for the mode detected last.
C14_NoRevealWhileMeasuring ==
    [][(iframeBusy /\ ~iframeBusy')
         => ~\E l \in stabLoops' : l.target = lastMode' /\ ~l.reveal]_vars

\* C15: whenever the iframe is hidden it is revealed again later.
C15_EventuallyRevealed == iframeBusy ~> ~iframeBusy

\* the iframe is hidden while a stabilization loop measures
C15_Witness == iframeBusy /\ \E l \in stabLoops : ~l.reveal /\ l.lastMeasured >= 0


\* C16: in the latest pass every registered rule that did not throw was
\* applied, whichever rules threw, and no exception left runAll.
C16_FailureIsolated ==
    eRuntime =>
        /\ lastPass.applied = SeqRange(eRules) \ lastPass.thrown
        /\ ~lastPass.escaped

\* the first registered rule threw in the latest pass and the second was
\* applied
C16_Witness ==
    /\ Len(eRules) >= 2
    /\ eRules[1] \in lastPass.thrown
    /\ eRules[2] \in lastPass.applied

\* C18: when an animation frame has run its callbacks, no change of the
\* child list, of character data or of an attribute made before that frame
\* began is still without a rule pass.
C18_PassByNextFrame == (eRuntime /\ ~inFrame) => eOwed = {}

\* C19: once the interval callback has run after the latest change by the
\* widget, every registered rule's target is in the enforced state, unless
\* a pass requested by the observer is still to run.
C19_ReappliedOnInterval ==
    (eTicked /\ eQueued = 0 /\ frameRules = 0) => SeqRange(eRules) \subseteq eEnforced

\* C20: the callbacks of one animation frame run at most one rule pass and
\* call handleModeChange at most once.
C20_OncePerFrame == framePasses <= 1 /\ frameHandles <= 1

\* a frame has run one pass and one handleModeChange, and a request made
\* during it waits for the next frame
C20_Witness ==
    /\ inFrame
    /\ framePasses = 1
    /\ frameHandles = 1
    /\ eQueued = 1

C30_BlockedOnlyAwayFromBottom ==
    (apiLast.api \in ScrollApis /\ apiLast.patched /\ apiLast.forwarded = <<>>) =>
        apiLast.chat /\ ~apiLast.atBottom

\* the send signals: Enter with neither shiftKey nor isComposing, a click
\* on a button of type submit or with "send" in its aria-label, a submit
SendSignals == {<<"keydown", "Enter", FALSE, FALSE>>,
                <<"click", "submit", FALSE, FALSE>>,
                <<"click", "send-aria", FALSE, FALSE>>,
                <<"submit", "", FALSE, FALSE>>}

\* C22: a step that takes the lock from inactive to active is the dispatch
\* of a send signal, and the detected mode is chat_mode when it is
\* dispatched.
C22_LockOnlyOnSendInChat ==
    [][(~lockActive /\ lockActive') =>
          (InChatMode /\ lastEvent' \in SendSignals)]_vars

\* the lock has just been started by a click on a button labelled "send"
C22_Witness ==
    /\ lockActive
    /\ sinceBump = 0
    /\ lastEvent = <<"click", "send-aria", FALSE, FALSE>>

\* the steps that run a handler of the blocker (and so may run
\* enforceLockOnce), as opposed to a scroll, a mount or the passing of time
HandlerEvents == {"keydown", "click", "submit", "wheel", "mutation", "frame",
                  "timeout"}

\* C23 (as claimed): no handler of the blocker moves the host page or an
\* internal scroller to a larger offset, and at a guard frame with the lock
\* active a position that is above its baseline becomes the baseline.
C23_BaselineFollowsAnyUpwardMove ==
    [][/\ lastEvent'[1] \in HandlerEvents =>
            /\ scrollY' <= scrollY
            /\ \A e \in Scrollers : scrollTop'[e] <= scrollTop[e]
       /\ (lastEvent'[1] = "frame" /\ lockActive) =>
            /\ scrollY < lockedOuterTop =>
                  (lockedOuterTop' = scrollY /\ scrollY' = scrollY)
            /\ (/\ lockedScroller # "null" /\ ~lockedScrollerDetached
                /\ scrollTop[lockedScroller] < lockedScrollerTop) =>
                  (lockedScrollerTop' = scrollTop[lockedScroller]
                     /\ scrollTop' = scrollTop)]_vars

\* C23 (amended): no handler of the blocker moves the host page or an
\* internal scroller to a larger offset, and at a guard frame with the lock
\* active a position that is more than 1px above its baseline, or above it
\* within the grace window of a user scroll input, stays where it is and
\* becomes the baseline.
C23_BaselineFollowsUpwardMove ==
    [][/\ lastEvent'[1] \in HandlerEvents =>
            /\ scrollY' <= scrollY
            /\ \A e \in Scrollers : scrollTop'[e] <= scrollTop[e]
       /\ (lastEvent'[1] = "frame" /\ lockActive) =>
            /\ (/\ scrollY < lockedOuterTop
                /\ scrollY < lockedOuterTop - 1 \/ RecentlyUserIntent) =>
                  (lockedOuterTop' = scrollY /\ scrollY' = scrollY)
            /\ (/\ lockedScroller # "null" /\ ~lockedScrollerDetached
                /\ scrollTop[lockedScroller] < lockedScrollerTop
                /\ scrollTop[lockedScroller] < lockedScrollerTop - 1
                     \/ RecentlyUserIntent) =>
                  (lockedScrollerTop' = scrollTop[lockedScroller]
                     /\ scrollTop' = scrollTop)]_vars

\* a guard frame has run with the lock active after the host page and the
\* internal scroller had moved up by more than 1px: both baselines followed
C23_Witness ==
    /\ lastEvent[1] = "frame"
    /\ lockActive
    /\ guardDid = {"follow-outer", "follow-scroller"}
    /\ lockedOuterTop = scrollY
    /\ lockedScrollerTop = scrollTop[lockedScroller]

\* C24: a poll that runs with the iframe in the host document calls onFound
\* for the first and only time, with the iframe's height already set to
\* floor(innerHeight x 0.87), and clears the interval; onFound is never
\* called twice, and no poll runs once it has been called.
C24_FoundOnceWithInitialHeight ==
    /\ [](wFound <= 1 /\ (wFound = 1 => wTimer = "cleared"))
    /\ [][(wElapsed' # wElapsed) =>
            /\ wFound = 0
            /\ wIframeInDom =>
                  /\ wFound' = 1
                  /\ wTimer' = "cleared"
                  /\ wSawHeight' = MinHeight(innerHeight)]_vars

\* onFound has run for an iframe that was injected with the height
\* ContentLarge under the large viewport
C24_Witness ==
    /\ wFound = 1
    /\ wTimer = "cleared"
    /\ innerHeight = ViewportLarge
    /\ wSawHeight = MinHeight(ViewportLarge)
    /\ wSawHeight # ContentLarge

\* C25 (as claimed): once enableIframeAutoResize is installed, every resize
\* of the host window runs resizeIframe().
C25_ResizeOnViewportResize ==
    [][(autoResizeInstalled /\ innerHeight' # innerHeight) => ranResize']_vars

\* C27: a tick of a stabilization loop that finds the detected mode
\* different from the loop's target mode writes no height, reveals the
\* iframe and requests no further frame: the loop is gone and every other
\* loop is as it was.
C27_AbortOnModeChange ==
    [][(lastEvent'[1] = "tick" /\ GetDelphiMode(markers) # lastEvent'[2]) =>
          /\ iframeHeight' = iframeHeight
          /\ ~iframeBusy'
          /\ \E l \in stabLoops :
                /\ l.target = lastEvent'[2]
                /\ ~l.reveal
                /\ stabLoops' = stabLoops \ {l}]_vars

\* a loop for call_mode has just aborted in overview_mode: the iframe is
\* revealed at the pre-reset height and no loop for call_mode is left
C27_Witness ==
    /\ lastEvent = <<"tick", "call_mode", FALSE, FALSE>>
    /\ GetDelphiMode(markers) = "overview_mode"
    /\ ~iframeBusy
    /\ iframeHeight = MinHeight(innerHeight)
    /\ \A l \in stabLoops : l.target # "call_mode"

\* C28: right after a run of resizeIframe() in chat_mode, with best the
\* largest scrollHeight of the conversation, the Talk container and the
\* active root and docH the document's: the height applied is the larger
\* of the floor and max(best, docH) when best is 0 or docH <= 1.2 x best,
\* and the larger of the floor and best alone when docH > 1.2 x best.
C28_ChatMeasurement ==
    LET convoH == IF markers["convo"].present THEN scrollH["convo"] ELSE 0
        talkH == IF markers["talk"].present THEN scrollH["talk"] ELSE 0
        rootH == scrollH[GetActiveHeightRoot(markers, "chat_mode")]
        best == Max(convoH, Max(talkH, rootH))
        docH == scrollH["docEl"]
        floor == MinHeight(innerHeight)
    IN  (ranResize /\ GetDelphiMode(markers) = "chat_mode") =>
          /\ (best = 0 \/ 10 * docH <= 12 * best) =>
                iframeHeight = Max(Max(best, docH), floor)
          /\ (best > 0 /\ 10 * docH > 12 * best) =>
                iframeHeight = Max(best, floor)

\* a run in chat_mode left out a document scrollHeight more than 1.2 times
\* the conversation's, which is above the floor
C28_Witness ==
    /\ ranResize
    /\ GetDelphiMode(markers) = "chat_mode"
    /\ markers["convo"].present
    /\ iframeHeight = scrollH["convo"]
    /\ iframeHeight > MinHeight(innerHeight)
    /\ 10 * scrollH["docEl"] > 12 * iframeHeight

C26_NoExceptionReachesHost == uncaught = 0


\* C31: delphi-styling.js scrolls the outer page on the first run of
\* resizeIframe() that resizes the iframe, when the target offset of that
\* run is positive, and on no other run: the number of its window.scrollTo
\* calls is 1 from that run on and 0 otherwise.
C31_ScrollOnFirstResizeOnly ==
    earlyScrolls = IF earlyWrites >= 1 /\ earlyFirstTarget > 0 THEN 1 ELSE 0


\* C32: a run of a detector (the interval tick or the frame callback of the
\* mode observer) calls handleModeChange once, with the mode it computed,
\* when that mode differs from the mode the latest run of a detector
\* computed, and not at all when it is the same mode, whichever detector ran
\* before and whether or not the other one is pending; outside the
\* detectors handleModeChange is not called.
C32_HandledExactlyOnce ==
    [][IF lastEvent'[1] \in {"interval", "check"}
         THEN handled' = IF GetDelphiMode(markers) # detected
                           THEN <<GetDelphiMode(markers)>> ELSE <<>>
         ELSE handled' = <<>>]_vars
\* the interval tick handled a change of the mode while the frame callback
\* of the mode observer was pending, and it still is
C32_Witness ==
    /\ lastEvent[1] = "interval"
    /\ handled = <<GetDelphiMode(markers)>>
    /\ checkScheduled


\* C33: at most one stabilization loop is in flight: in no state do two
\* loops started by stabilizeHeightOnModeEntry have a frame callback (a
\* tick or a reveal) pending.
C33_OneLoopInFlight == Cardinality(stabLoops) <= 1


\* C34: while the lock stays active, with no user scroll-input signal since
\* it started and none within the grace window, no step raises a captured
\* baseline: the outer baseline does not increase, and the baseline of the
\* internal scroller the lock follows does not increase.
C34_BaselineNeverIncreases ==
    [][(/\ lockActive /\ lockActive'
        /\ ~intentSinceLock'
        /\ intentAgo >= USER_INTENT_GRACE_MS
        /\ intentAgo' >= USER_INTENT_GRACE_MS)
         => /\ lockedOuterTop' <= lockedOuterTop
            /\ (lockedScroller # "null" /\ lockedScroller' = lockedScroller)
                 => lockedScrollerTop' <= lockedScrollerTop]_vars


\* C35: with the lock inactive no guard frame is pending, no idle timeout
\* is pending and no stream observer is connected; with the lock active at
\* most one guard frame and at most one idle timeout are pending.
C35_LockResources ==
    /\ ~lockActive => (guardFrames = 0 /\ idleTimeouts = 0 /\ observers = 0)
    /\ lockActive => (guardFrames <= 1 /\ idleTimeouts <= 1)
\* the uninstall function ran while the lock was active on an internal
\* scroller, before its idle timeout was due, and released it
C35_Witness ==
    /\ ~blockerInstalled
    /\ ~lockActive
    /\ lockedScroller # "null"
    /\ sinceBump < STREAM_IDLE_MS


\* C36: whenever iframe.__dvDomRulesInstalled is set, every rule of
\* registerDelphiDomRules is registered in the runtime of the document the
\* iframe shows, and whenever iframe.__dvAutoResizeInstalled is set the
\* resize interval exists (an attempt that cannot complete sets no flag).
C36_FlagsImplyInstalled ==
    /\ dvDomRulesInstalled => docs[docGen].rules = RuleNames
    /\ autoResizeInstalled => resizeIntervals >= 1


\* C37: userHasScrolled of part_002 goes from false to true only in a
\* delivery of a scroll event that a scroll of the user contributed to; the
\* event that follows the reconciler's own window.scrollTo never sets it.
C37_FlagOnlyFromUserScroll ==
    [][(~userHasScrolled /\ userHasScrolled') => "user" \in scrollEvents]_vars


\* C40: in every execution of waitForIframe the interval is eventually
\* cleared, and at every moment the number of outcomes (onFound called,
\* timeout error logged) is one if the interval is cleared and zero if it
\* is not: never both, never twice, never cleared without an outcome.
C40_ExactlyOneOutcome ==
    /\ <>[](wTimer = "cleared")
    /\ [](wFound + wErrors = IF wTimer = "cleared" THEN 1 ELSE 0)
\* the iframe was found by the first poll after the 15000ms window, and no
\* error was logged
C40_Witness ==
    /\ wTimer = "cleared"
    /\ wFound = 1
    /\ wErrors = 0
    /\ wFoundAt > MAX_TIME


\* C39: after a call of the uninstall function that
\* installIframeAutoScrollBlocker returned, the lock is released with its
\* frame, timeout and observer gone, none of the six listeners is on the
\* document, and scrollIntoView, scrollTo and scrollBy are the original
\* functions; a further installIframeAutoScrollBlocker call on the same
\* window adds no listener and no patch and returns that same function.
C39_UninstallRoundTrip ==
    /\ [](installLast = "uninstall" =>
            /\ ~lockActive
            /\ guardFrames = 0 /\ idleTimeouts = 0 /\ observers = 0
            /\ docListeners = {}
            /\ winApis = [a \in PatchedApis |-> 0])
    /\ [][installCalls' # installCalls =>
            /\ docListeners' = docListeners
            /\ winApis' = winApis
            /\ installReturned' = 1
            /\ winUninstall' = 1]_vars
\* the function was called with the lock active on an internal scroller,
\* and installIframeAutoScrollBlocker was called again afterwards
C39_Witness ==
    /\ installLast = "install"
    /\ installCalls = 2
    /\ installReturned = 1
    /\ docListeners = {}
    /\ winApis = [a \in PatchedApis |-> 0]
    /\ ~lockActive
    /\ lockedScroller # "null"
    /\ sinceBump < STREAM_IDLE_MS


\* C38: with the widget changing the document only finitely often, the
\* rule engine comes to rest: from some moment on no pass is scheduled;
\* and whenever no pass is scheduled the document is a fixpoint of runAll
\* as far as the observer can tell (a further pass would write nothing it
\* reports).
C38_Quiescence ==
    /\ <>[](~eScheduled)
    /\ []((eRuntime /\ ~eScheduled) => ~QuietRunAll(QuietStart, QuietRules).wrote)
\* the widget has made its last change, the engine is at rest, and passes
\* ran after that change that only the writes of the rules had requested
C38_Witness ==
    /\ eRuntime
    /\ ~eScheduled
    /\ widgetSteps = MaxWidgetSteps
    /\ quietPasses >= 2

=============================================================================
